---- MODULE Spec2Model ----
(***************************************************************************)
(* Grid Clash: the authoritative UDP server (src/server.py), the wire      *)
(* codec's validity rules (src/protocol.py) and the two client             *)
(* reliability layers (src/client.py, src/game_ui.py).                     *)
(*                                                                         *)
(* The server runs three threads over module-level state and takes no     *)
(* lock: handle_client_messages, cleanup_dead_clients and                  *)
(* broadcast_snapshots.  Each thread is a process with its own program    *)
(* counter; one action is one access to the shared state (or a run of     *)
(* thread-local statements), so every interleaving the interpreter can    *)
(* produce between two shared accesses is a behaviour of Spec.             *)
(***************************************************************************)
EXTENDS Integers, Sequences, FiniteSets, TLC

(* ------------------------------ bounds -------------------------------- *)
\* endpoints (ip, port) that ever contact the server
NumAddrs == 2
\* event ids a sender uses: 1..MaxEventId
MaxEventId == 1
\* grid dimension N of the model (server.py:40 sets 20)
GRID_SIZE == 2
\* the clock advances in steps of TimeStep ms, MaxTicks times
TimeStep == 8000
MaxTicks == 2
\* broadcast ticks that consume a snapshot id
MaxSnapshot == 2
\* acquire requests a client issues: event ids 1..MaxClientEvents
MaxClientEvents == 2
\* a client's clock advances in steps of ClientTimeStep ms, MaxClientTicks times
ClientTimeStep == 200
MaxClientTicks == 5
\* snapshot ids a client receives: 1..MaxSnapshotIn
MaxSnapshotIn == 3

(* ------------------------- program constants -------------------------- *)
CLIENT_TIMEOUT_MS == 15000
HEADER_SIZE == 28
EVENT_SIZE == 15
ACK_SIZE == 5
VERSION == 1
MSG_JOIN == 0
MSG_JOIN_ACK == 1
MSG_SNAPSHOT == 2
MSG_EVENT == 3
MSG_ACK == 4
ACQUIRE_REQUEST == 0
EVENT_ACK == 0
REDUNDANCY == 2
RETRY_INTERVAL_MS == 200
MAX_RETRIES == 3
RETRY_CHECK_MS == 50
player_struct_size == 9

Addrs == 1..NumAddrs
EventIds == 1..MaxEventId

(* ------------------------------ dict helpers -------------------------- *)
\* d[k] = v on a dict
Put(d, k, v) == [x \in (DOMAIN d) \cup {k} |-> IF x = k THEN v ELSE d[x]]
\* (mutant) the pop removes nothing
Pop_Keep(d, k) == d

\* d.pop(k, None)
Pop(d, k) == [x \in (DOMAIN d) \ {k} |-> d[x]]
\* the empty dict
EmptyDict == [x \in {} |-> 0]

(* ------------------------------ datagrams ----------------------------- *)
\* A datagram as recvfrom returns it: the sender, the number of bytes, and the
\* header and event-payload fields the handler reads.  proto_ok says whether the
\* first four bytes are b'GCSP'.
Dgram(a, size, proto_ok, version, msg_type, payload_len, event_type, event_id, row, col) ==
    [addr |-> a, size |-> size, proto_ok |-> proto_ok, version |-> version,
     msg_type |-> msg_type, payload_len |-> payload_len,
     event_type |-> event_type, event_id |-> event_id, row |-> row, col |-> col]

NoDgram == Dgram(0, 0, FALSE, 0, 0, 0, 0, 0, 0, 0)

JoinDgram(a) == Dgram(a, HEADER_SIZE, TRUE, VERSION, MSG_JOIN, 0, 0, 0, 0, 0)

EventDgram(a, e, r, c) ==
    Dgram(a, HEADER_SIZE + EVENT_SIZE, TRUE, VERSION, MSG_EVENT, EVENT_SIZE,
          ACQUIRE_REQUEST, e, r, c)

\* Cells an acquire request names: two cells of the grid and one cell off it
\* (row and col are unsigned bytes on the wire, so never < 0).
Targets == { <<0, 0>>, <<GRID_SIZE - 1, GRID_SIZE - 1>>, <<0, GRID_SIZE>> }

\* Datagrams that do not decode, or that no branch of the handler takes.
OddDgrams ==
    { Dgram(1, 0, FALSE, 0, 0, 0, 0, 0, 0, 0),                          \* empty
      Dgram(1, HEADER_SIZE - 1, TRUE, VERSION, MSG_JOIN, 0, 0, 0, 0, 0), \* short header
      Dgram(1, HEADER_SIZE, FALSE, VERSION, MSG_JOIN, 0, 0, 0, 0, 0),    \* wrong tag
      Dgram(1, HEADER_SIZE, TRUE, VERSION + 1, MSG_JOIN, 0, 0, 0, 0, 0), \* wrong version
      Dgram(1, HEADER_SIZE, TRUE, VERSION, MSG_ACK + 1, 0, 0, 0, 0, 0),  \* no such MsgType
      Dgram(1, HEADER_SIZE, TRUE, VERSION, MSG_ACK, 0, 0, 0, 0, 0),      \* not for the server
      \* EVENT whose payload is one byte short
      Dgram(1, HEADER_SIZE + EVENT_SIZE - 1, TRUE, VERSION, MSG_EVENT, EVENT_SIZE - 1,
            ACQUIRE_REQUEST, 1, 0, 0),
      \* EVENT whose header declares fewer bytes than were sent
      Dgram(1, HEADER_SIZE + EVENT_SIZE, TRUE, VERSION, MSG_EVENT, EVENT_SIZE - 1,
            ACQUIRE_REQUEST, 1, 0, 0),
      \* EVENT of a kind EventType does not name
      Dgram(1, HEADER_SIZE + EVENT_SIZE, TRUE, VERSION, MSG_EVENT, EVENT_SIZE,
            ACQUIRE_REQUEST + 1, 1, 0, 0) }

\* Datagrams the handler decodes: a JOIN or an acquire request of any endpoint
Datagrams ==
    { JoinDgram(a) : a \in Addrs }
    \cup { EventDgram(a, e, t[1], t[2]) : a \in Addrs, e \in EventIds, t \in Targets }

AllDatagrams == Datagrams \cup OddDgrams

\* unpack_header without the test of the protocol tag
HeaderBad_NoTag(d) ==
    \/ d.size < HEADER_SIZE
    \/ d.version # VERSION
    \/ d.msg_type \notin MSG_JOIN..MSG_ACK

\* unpack_header raises ValueError
HeaderBad(d) ==
    \/ d.size < HEADER_SIZE
    \/ ~d.proto_ok
    \/ d.version # VERSION
    \/ d.msg_type \notin MSG_JOIN..MSG_ACK

\* len(data[HEADER_SIZE:HEADER_SIZE + payload_len])
Min(x, y) == IF x < y THEN x ELSE y
PayloadSize(d) == Min(d.payload_len, d.size - HEADER_SIZE)

\* unpack_event raises ValueError: too short, or EventType(event_type) fails
EventBad(d) ==
    \/ PayloadSize(d) < EVENT_SIZE
    \/ d.event_type # ACQUIRE_REQUEST

\* an EVENT datagram the handler decodes
IsEvent(d) == d.size > 0 /\ ~HeaderBad(d) /\ d.msg_type = MSG_EVENT /\ ~EventBad(d)
\* the event a datagram carries: sender, event id and target cell
EventKey(d) == <<d.addr, d.event_id, d.row, d.col>>
IsJoin(d) == d.size > 0 /\ ~HeaderBad(d) /\ d.msg_type = MSG_JOIN

(* ------------------------------ packets sent -------------------------- *)
JoinAck(a, pid) == [to |-> a, msg_type |-> MSG_JOIN_ACK, player_id |-> pid, event_id |-> 0]
EventAck(a, e) == [to |-> a, msg_type |-> MSG_ACK, player_id |-> 0, event_id |-> e]

\* A SNAPSHOT packet: the header's snapshot id and sequence number, and the
\* payload's player count, roster (the ids packed) and grid cells.
Packet(sid, seq, num, roster, cells) ==
    [snapshot_id |-> sid, seq_num |-> seq, num_players |-> num,
     roster |-> roster, cells |-> cells]
NoPacket == Packet(0, 0, 0, {}, <<>>)

VARIABLES
    \* server.py module state
    clients, players, player_id_history, next_player_id,
    snapshot_id, seq_num, grid, processed_events, client_last_seen,
    \* current_millis()
    now,
    \* handle_client_messages: position, the datagram in hand, its locals, and
    \* what it has sent for that datagram
    h_pc, h_cur, h_player_id, h_seen, h_sent,
    \* history of the datagram in hand: was its id in the applied-event set at
    \* line 288, how handle_acquire_request ended, the grid when it was received,
    \* whether the acquire rule had been evaluated for the same event before,
    \* and whether line 229 found the sender of a JOIN in the live set
    h_dup, h_acq, h_grid0, h_again, h_live,
    \* cleanup_dead_clients: position, dead_clients still to evict, the one in hand
    s_pc, s_dead, s_cur,
    \* history: endpoints ever evicted, for each cell the player of the first
    \* acquire request evaluated on it, and the events (endpoint, id, row, col)
    \* on a cell of the grid the acquire rule has been evaluated for
    ever_evicted, first_writer, evaluated,
    \* history: the errors recvfrom has raised, as pairs (receive loop, kind)
    sock_errs,
    \* protocol.py called on its own: what was called last, its arguments, the
    \* bytes packed or received, and what unpacking them returned
    p_pc, p_in, p_data, p_out,
    \* broadcast_snapshots: position; num_players (line 139); the size the
    \* iterator over players.values() was created at, the endpoints it has
    \* visited and the ids it has packed; the cells packed so far; the packet;
    \* current_clients (line 374); the datagrams sent in this tick
    b_pc, b_num, b_used, b_visited, b_roster, b_grid, b_packet, b_targets, b_sent,
    \* which client program runs: "cli" (client.py) or "ui" (game_ui.py)
    impl,
    \* the client's state: pending_events, next_event_id, last_applied_snapshot
    \* (client.py) / last_snapshot_id (game_ui.py), last_snapshot_latency_ms
    \* (-1 for None), jitter_ms, GameState.grid, NetworkThread.send_queue,
    \* the owner of NetworkThread.send_lock, run()'s last_retry_check
    pending_events, next_event_id, last_snapshot_id, last_snapshot_latency_ms,
    jitter_ms, c_grid, send_queue, send_lock, last_retry_check,
    \* the client's current_millis()
    c_now,
    \* the foreground path (client.py main / game_ui.py main): position and the
    \* request in hand
    m_pc, m_ev,
    \* client.py recv_loop: position and the acked event id in hand
    r_pc, r_ev,
    \* client.py retry_loop: position, now (line 178), the keys still to visit
    \* (line 182), the key in hand
    t_pc, t_now, t_keys, t_ev,
    \* game_ui.py NetworkThread.run: position and the queued event in hand
    n_pc, n_ev,
    \* the SNAPSHOT datagram the receive path holds or handled last
    c_rx,
    \* history: for each event id the EVENT datagrams transmitted (row, col,
    \* time), the time its pending entry was inserted (-1: never), the ids an
    \* ACK was received for, the ids reported failed, whether a retry pass has
    \* run since the clock last advanced, and one row (snapshot id, latency,
    \* jitter) per snapshot applied
    sent_events, born, acked, failed, swept, samples,
    \* the SNAPSHOT datagrams the network holds for the UI client's endpoint,
    \* and the owner of GameState.lock where its sections are taken in two
    \* steps
    wire, state_lock

server_vars == <<clients, players, player_id_history, next_player_id,
                 snapshot_id, seq_num, grid, processed_events, client_last_seen>>
h_vars == <<h_pc, h_cur, h_player_id, h_seen, h_sent, h_dup, h_acq, h_grid0, h_again, h_live>>
s_vars == <<s_pc, s_dead, s_cur>>
b_vars == <<b_pc, b_num, b_used, b_visited, b_roster, b_grid, b_packet, b_targets, b_sent>>
g_vars == <<ever_evicted, first_writer, evaluated, sock_errs>>
client_state == <<pending_events, next_event_id, send_queue, send_lock, last_retry_check>>
snap_state == <<last_snapshot_id, last_snapshot_latency_ms, jitter_ms, c_grid, samples>>
m_vars == <<m_pc, m_ev>>
r_vars == <<r_pc, r_ev>>
t_vars == <<t_pc, t_now, t_keys, t_ev>>
n_vars == <<n_pc, n_ev>>
k_vars == <<sent_events, born, acked, failed>>
p_vars == <<p_pc, p_in, p_data, p_out>>
x_vars == <<wire, state_lock>>
c_vars == <<impl, client_state, snap_state, c_now, m_vars, r_vars, t_vars, n_vars,
            c_rx, k_vars, swept>>
vars == <<server_vars, now, h_vars, s_vars, b_vars, g_vars, c_vars, p_vars, x_vars>>

Cells == 0..(GRID_SIZE * GRID_SIZE - 1)

InitServer ==
    /\ clients = {}
    /\ players = EmptyDict
    /\ player_id_history = EmptyDict
    /\ next_player_id = 1
    /\ snapshot_id = 0
    /\ seq_num = 0
    /\ grid = [c \in Cells |-> 0]
    /\ processed_events = EmptyDict
    /\ client_last_seen = EmptyDict
    /\ now = 0
    /\ h_pc = "recv"
    /\ h_cur = NoDgram
    /\ h_player_id = 0
    /\ h_seen = {}
    /\ h_sent = <<>>
    /\ h_dup = FALSE
    /\ h_acq = "none"
    /\ h_grid0 = [c \in Cells |-> 0]
    /\ h_again = FALSE
    /\ h_live = FALSE
    /\ s_pc = "sleep"
    /\ s_dead = {}
    /\ s_cur = 0
    /\ ever_evicted = {}
    /\ first_writer = [c \in Cells |-> 0]
    /\ evaluated = {}
    /\ sock_errs = {}
    /\ p_pc = "idle"
    /\ p_in = <<>>
    /\ p_data = <<>>
    /\ p_out = <<>>
    /\ b_pc = "sleep"
    /\ b_num = 0
    /\ b_used = 0
    /\ b_visited = {}
    /\ b_roster = {}
    /\ b_grid = <<>>
    /\ b_packet = NoPacket
    /\ b_targets = {}
    /\ b_sent = {}

ClientEventIds == 1..MaxClientEvents
NoSnapshot == [snapshot_id |-> 0, server_timestamp |-> 0, payload |-> <<>>]

\* a client after its start-up (client.py lines 262-271, game_ui.py lines
\* 84-102 and 168-179, 285)
InitClient(i) ==
    /\ impl = i
    /\ pending_events = EmptyDict
    /\ next_event_id = 1
    /\ last_snapshot_id = -1
    /\ last_snapshot_latency_ms = -1
    /\ jitter_ms = 0
    /\ c_grid = [c \in Cells |-> 0]
    /\ send_queue = <<>>
    /\ send_lock = "free"
    /\ last_retry_check = 0
    /\ c_now = 0
    /\ m_pc = "idle"
    /\ m_ev = <<0, 0, 0>>
    /\ r_pc = "recv"
    /\ r_ev = 0
    /\ t_pc = "sleep"
    /\ t_now = 0
    /\ t_keys = {}
    /\ t_ev = 0
    /\ n_pc = "n289"
    /\ n_ev = <<0, 0, 0>>
    /\ c_rx = NoSnapshot
    /\ sent_events = [e \in ClientEventIds |-> <<>>]
    /\ born = [e \in ClientEventIds |-> -1]
    /\ acked = {}
    /\ failed = {}
    /\ swept = TRUE
    /\ samples = <<>>
    /\ wire = {}
    /\ state_lock = "free"

\* the server with a command-line client that has done nothing
Init == InitServer /\ InitClient("cli")

\* either client program, started
InitClients == InitServer /\ \E i \in {"cli", "ui"} : InitClient(i)

(* ------------------------------ the clock ----------------------------- *)
Tick ==
    /\ now < MaxTicks * TimeStep
    /\ now' = now + TimeStep
    /\ UNCHANGED <<server_vars, h_vars, s_vars, b_vars, g_vars, c_vars, p_vars, x_vars>>

(* --------------------- handle_acquire_request ------------------------- *)
\* line 175: the cell is on the grid
InRange(row, col) == row >= 0 /\ row < GRID_SIZE /\ col >= 0 /\ col < GRID_SIZE

\* line 179
CellIndex(row, col) == row * GRID_SIZE + col

\* (mutant) the owner hands the cell back by asking again
AcquireCell_Toggle(g, idx, player_id) ==
    IF g[idx] = 0 THEN [g EXCEPT ![idx] = player_id]
    ELSE IF g[idx] = player_id THEN [g EXCEPT ![idx] = 0] ELSE g

\* (mutant) the last request wins
AcquireCell_Overwrite(g, idx, player_id) == [g EXCEPT ![idx] = player_id]

\* lines 180-189: the cell goes to player_id only if nobody owns it
AcquireCell(g, idx, player_id) ==
    IF g[idx] = 0 THEN [g EXCEPT ![idx] = player_id] ELSE g

(* ------------------------ handle_client_messages ---------------------- *)
\* (mutant) the history is not consulted
ResolvePlayerId_Fresh(history, addr, next_id) == next_id

\* lines 232-241 and 273-281: the id of a returning endpoint is the one the
\* history holds, a new endpoint gets next_player_id
ResolvePlayerId(history, addr, next_id) ==
    IF addr \in DOMAIN history THEN history[addr] ELSE next_id

\* (mutant) the counter is not advanced
NextId_Stuck(next_id) == next_id

\* lines 241 and 281: next_player_id += 1
NextId(next_id) == next_id + 1

\* (mutant) no event is taken for a duplicate
IsDuplicate_Never(seen, ev_id) == FALSE

\* line 289: the event id is in the sender's applied-event set
IsDuplicate(seen, ev_id) == ev_id \in seen

\* the handler takes a datagram in hand
HBegin(d) ==
    /\ h_cur' = d
    /\ h_grid0' = grid
    /\ h_again' = (IsEvent(d) /\ EventKey(d) \in evaluated)
    /\ h_live' = FALSE
    /\ UNCHANGED <<h_player_id, h_seen, h_sent, h_dup, h_acq>>

HKeep == UNCHANGED <<h_cur, h_seen, h_sent, h_dup, h_acq, h_grid0, h_again, h_live>>

\* lines 204-227 and 259-264: receive a datagram (one of D) and decode it.  An
\* empty datagram, a header or an event payload that does not decode, and a
\* message type no branch takes all lead back to recvfrom with nothing changed.
HRecvOf(D) ==
    /\ h_pc = "recv"
    /\ \E d \in D :
          /\ HBegin(d)
          /\ h_pc' = IF d.size = 0 \/ HeaderBad(d) THEN "done"
                     ELSE IF d.msg_type = MSG_JOIN THEN "j229"
                     ELSE IF d.msg_type = MSG_EVENT /\ ~EventBad(d) THEN "e267"
                     ELSE "done"
    /\ UNCHANGED <<server_vars, now, s_vars, b_vars, g_vars, c_vars, p_vars, x_vars>>

\* lines 229-230: an endpoint that is not live joins the live set
HJoinCheck ==
    /\ h_pc = "j229"
    /\ IF h_cur.addr \notin clients
          THEN /\ clients' = clients \cup {h_cur.addr}
               /\ h_pc' = "j232"
          ELSE /\ UNCHANGED clients
               /\ h_pc' = "j246"
    /\ h_live' = (h_cur.addr \in clients)
    /\ UNCHANGED <<h_cur, h_seen, h_sent, h_dup, h_acq, h_grid0, h_again>>
    /\ UNCHANGED <<players, player_id_history, next_player_id, snapshot_id, seq_num,
                   grid, processed_events, client_last_seen, h_player_id,
                   now, s_vars, b_vars, g_vars, c_vars, p_vars, x_vars>>

\* lines 232-241 (JOIN) and 273-281 (EVENT): write the registry entry, and for a
\* new endpoint the history entry and the counter.  Only this thread reads or
\* writes the history and the counter.
HRegister(at, restored, fresh) ==
    /\ h_pc = at
    /\ players' = Put(players, h_cur.addr,
                      ResolvePlayerId(player_id_history, h_cur.addr, next_player_id))
    /\ IF h_cur.addr \in DOMAIN player_id_history
          THEN /\ UNCHANGED <<player_id_history, next_player_id>>
               /\ h_pc' = restored
          ELSE /\ player_id_history' = Put(player_id_history, h_cur.addr, next_player_id)
               /\ next_player_id' = NextId(next_player_id)
               /\ h_pc' = fresh
    /\ HKeep
    /\ UNCHANGED <<clients, snapshot_id, seq_num, grid, processed_events,
                   client_last_seen, h_player_id, now, s_vars, b_vars, g_vars, c_vars, p_vars, x_vars>>

\* lines 235 and 275: the log line of a restored id reads players[addr] again;
\* a KeyError ends the thread
HLogRestored(at, next) ==
    /\ h_pc = at
    /\ h_pc' = IF h_cur.addr \in DOMAIN players THEN next ELSE "crashed"
    /\ HKeep
    /\ UNCHANGED <<server_vars, h_player_id, now, s_vars, b_vars, g_vars, c_vars, p_vars, x_vars>>

\* lines 242 and 282: processed_events[addr] = set()
HResetEvents(at, next) ==
    /\ h_pc = at
    /\ processed_events' = Put(processed_events, h_cur.addr, {})
    /\ h_pc' = next
    /\ HKeep
    /\ UNCHANGED <<clients, players, player_id_history, next_player_id, snapshot_id,
                   seq_num, grid, client_last_seen, h_player_id,
                   now, s_vars, b_vars, g_vars, c_vars, p_vars, x_vars>>

HJoinRegister == HRegister("j232", "j235", "j242")
HJoinLogRestored == HLogRestored("j235", "j242")
HJoinResetEvents == HResetEvents("j242", "j246")

\* line 246: player_id = players[addr]; a KeyError ends the thread
HJoinLookup ==
    /\ h_pc = "j246"
    /\ IF h_cur.addr \in DOMAIN players
          THEN /\ h_player_id' = players[h_cur.addr]
               /\ h_pc' = "j247"
          ELSE /\ UNCHANGED h_player_id
               /\ h_pc' = "crashed"
    /\ HKeep
    /\ UNCHANGED <<server_vars, now, s_vars, b_vars, g_vars, c_vars, p_vars, x_vars>>

\* lines 247-257: refresh last-seen and send JOIN_ACK; struct.pack("!B", ...)
\* raises struct.error, which ends the thread, for an id above 255
HJoinAck ==
    /\ h_pc = "j247"
    /\ client_last_seen' = Put(client_last_seen, h_cur.addr, now)
    /\ IF h_player_id <= 255
          THEN /\ h_sent' = Append(h_sent, JoinAck(h_cur.addr, h_player_id))
               /\ h_pc' = "done"
          ELSE /\ UNCHANGED h_sent
               /\ h_pc' = "crashed"
    /\ UNCHANGED <<clients, players, player_id_history, next_player_id, snapshot_id,
                   seq_num, grid, processed_events, h_cur, h_player_id, h_seen,
                   h_dup, h_acq, h_grid0, h_again, h_live, now, s_vars, b_vars, g_vars, c_vars, p_vars, x_vars>>

\* line 267: refresh last-seen
HEventSeen ==
    /\ h_pc = "e267"
    /\ client_last_seen' = Put(client_last_seen, h_cur.addr, now)
    /\ h_pc' = "e270"
    /\ HKeep
    /\ UNCHANGED <<clients, players, player_id_history, next_player_id, snapshot_id,
                   seq_num, grid, processed_events, h_player_id,
                   now, s_vars, b_vars, g_vars, c_vars, p_vars, x_vars>>

\* lines 270-271: an endpoint with no registry entry joins the live set
HEventCheck ==
    /\ h_pc = "e270"
    /\ IF h_cur.addr \notin DOMAIN players
          THEN /\ clients' = clients \cup {h_cur.addr}
               /\ h_pc' = "e273"
          ELSE /\ UNCHANGED clients
               /\ h_pc' = "e285"
    /\ HKeep
    /\ UNCHANGED <<players, player_id_history, next_player_id, snapshot_id, seq_num,
                   grid, processed_events, client_last_seen, h_player_id,
                   now, s_vars, b_vars, g_vars, c_vars, p_vars, x_vars>>

HEventRegister == HRegister("e273", "e275", "e282")
HEventLogRestored == HLogRestored("e275", "e282")
HEventResetEvents == HResetEvents("e282", "e285")

\* lines 285-288: player_id = players.get(addr, -1), and
\* seen = processed_events.setdefault(addr, set()).  seen is the set object the
\* dict holds at this moment; h_seen is its contents.
HEventSetdefault ==
    /\ h_pc = "e285"
    /\ h_player_id' = IF h_cur.addr \in DOMAIN players THEN players[h_cur.addr] ELSE -1
    /\ IF h_cur.addr \in DOMAIN processed_events
          THEN /\ h_seen' = processed_events[h_cur.addr]
               /\ UNCHANGED processed_events
          ELSE /\ h_seen' = {}
               /\ processed_events' = Put(processed_events, h_cur.addr, {})
    /\ h_dup' = (h_cur.event_id \in h_seen')
    /\ h_pc' = "e289"
    /\ UNCHANGED <<clients, players, player_id_history, next_player_id, snapshot_id,
                   seq_num, grid, client_last_seen, h_cur, h_sent, h_acq,
                   h_grid0, h_again, h_live, now, s_vars, b_vars, g_vars, c_vars, p_vars, x_vars>>

\* lines 289-292: a duplicate skips the game logic; otherwise seen.add(ev_id).
\* The add reaches processed_events only while the dict still holds that set
\* object (the sweeper may have popped it; only this thread puts one in).
HEventDedup ==
    /\ h_pc = "e289"
    /\ IF IsDuplicate(h_seen, h_cur.event_id)
          THEN /\ h_pc' = "e304"
               /\ UNCHANGED <<h_seen, processed_events>>
          ELSE /\ h_seen' = h_seen \cup {h_cur.event_id}
               /\ processed_events' =
                     IF h_cur.addr \in DOMAIN processed_events
                        THEN Put(processed_events, h_cur.addr, h_seen \cup {h_cur.event_id})
                        ELSE processed_events
               /\ h_pc' = "a167"
    /\ UNCHANGED <<clients, players, player_id_history, next_player_id, snapshot_id,
                   seq_num, grid, client_last_seen, h_cur, h_player_id, h_sent, h_acq,
                   h_dup, h_grid0, h_again, h_live, now, s_vars, b_vars, g_vars, c_vars, p_vars, x_vars>>

\* lines 167-169: handle_acquire_request returns for an endpoint not registered
HAcquireKnown ==
    /\ h_pc = "a167"
    /\ IF h_cur.addr \notin DOMAIN players
          THEN /\ h_acq' = "unknown"
               /\ h_pc' = "e304"
          ELSE /\ UNCHANGED h_acq
               /\ h_pc' = "a171"
    /\ UNCHANGED <<server_vars, h_cur, h_player_id, h_seen, h_sent, h_dup, h_grid0,
                   h_again, h_live, now, s_vars, b_vars, g_vars, c_vars, p_vars, x_vars>>

\* line 171: player_id = players[addr]; a KeyError ends the thread
HAcquireLookup ==
    /\ h_pc = "a171"
    /\ IF h_cur.addr \in DOMAIN players
          THEN /\ h_player_id' = players[h_cur.addr]
               /\ h_pc' = "a175"
          ELSE /\ UNCHANGED h_player_id
               /\ h_pc' = "crashed"
    /\ HKeep
    /\ UNCHANGED <<server_vars, now, s_vars, b_vars, g_vars, c_vars, p_vars, x_vars>>

\* lines 172-189: the acquire rule.  Only this thread writes the grid.
HAcquireApply ==
    /\ h_pc = "a175"
    /\ IF InRange(h_cur.row, h_cur.col)
          THEN LET idx == CellIndex(h_cur.row, h_cur.col) IN
               /\ grid' = AcquireCell(grid, idx, h_player_id)
               /\ h_acq' = IF grid[idx] = 0 THEN "applied" ELSE "owned"
               /\ first_writer' = IF first_writer[idx] = 0
                                     THEN [first_writer EXCEPT ![idx] = h_player_id]
                                     ELSE first_writer
               /\ evaluated' = evaluated \cup {EventKey(h_cur)}
          ELSE /\ h_acq' = "invalid"
               /\ UNCHANGED <<grid, first_writer, evaluated>>
    /\ h_pc' = "e304"
    /\ UNCHANGED <<clients, players, player_id_history, next_player_id, snapshot_id,
                   seq_num, processed_events, client_last_seen, h_cur, h_player_id,
                   h_seen, h_sent, h_dup, h_grid0, h_again, h_live, now, s_vars, b_vars,
                   ever_evicted, sock_errs, c_vars, p_vars, x_vars>>

\* lines 299-311: log the latency, send EVENT_ACK(ev_id) to the sender
HEventAck ==
    /\ h_pc = "e304"
    /\ h_sent' = Append(h_sent, EventAck(h_cur.addr, h_cur.event_id))
    /\ h_pc' = "done"
    /\ UNCHANGED <<server_vars, h_cur, h_player_id, h_seen, h_dup, h_acq, h_grid0,
                   h_again, h_live, now, s_vars, b_vars, g_vars, c_vars, p_vars, x_vars>>

\* line 202: the loop turns to the next datagram; the locals of the last one
\* are dead
HLoop ==
    /\ h_pc = "done"
    /\ h_pc' = "recv"
    /\ h_cur' = NoDgram
    /\ h_player_id' = 0
    /\ h_seen' = {}
    /\ h_sent' = <<>>
    /\ h_dup' = FALSE
    /\ h_acq' = "none"
    /\ h_grid0' = grid
    /\ h_again' = FALSE
    /\ h_live' = FALSE
    /\ UNCHANGED <<server_vars, now, s_vars, b_vars, g_vars, c_vars, p_vars, x_vars>>

HRecv == HRecvOf(Datagrams)

\* the JOIN branch, and the loop's back edge
JoinSteps ==
    \/ HLoop
    \/ HJoinCheck \/ HJoinRegister \/ HJoinLogRestored \/ HJoinResetEvents
    \/ HJoinLookup \/ HJoinAck

\* the EVENT branch
EventSteps ==
    \/ HEventSeen \/ HEventCheck \/ HEventRegister \/ HEventLogRestored
    \/ HEventResetEvents \/ HEventSetdefault \/ HEventDedup
    \/ HAcquireKnown \/ HAcquireLookup \/ HAcquireApply \/ HEventAck

Handler == HRecv \/ JoinSteps \/ EventSteps

(* ------------------------- cleanup_dead_clients ----------------------- *)
\* client_last_seen.get(addr, now)
LastSeen(last_seen, addr, t) == IF addr \in DOMAIN last_seen THEN last_seen[addr] ELSE t

\* lines 327-335: the live endpoints silent for more than the timeout
DeadClients(live, last_seen, t) ==
    { a \in live : t - LastSeen(last_seen, a, t) > CLIENT_TIMEOUT_MS }

\* lines 325-335: wake up, read the clock and collect dead_clients
SweepScan ==
    /\ s_pc = "sleep"
    /\ s_dead' = DeadClients(clients, client_last_seen, now)
    /\ s_pc' = IF s_dead' = {} THEN "sleep" ELSE "s337"
    /\ UNCHANGED <<server_vars, now, h_vars, b_vars, s_cur, g_vars, c_vars, p_vars, x_vars>>

\* lines 337-338: take the next dead endpoint, clients.discard(addr)
SweepDiscard ==
    /\ s_pc = "s337"
    /\ \E a \in s_dead :
          /\ s_cur' = a
          /\ s_dead' = s_dead \ {a}
          /\ clients' = clients \ {a}
    /\ s_pc' = "s339"
    /\ UNCHANGED <<players, player_id_history, next_player_id, snapshot_id, seq_num,
                   grid, processed_events, client_last_seen,
                   now, h_vars, b_vars, g_vars, c_vars, p_vars, x_vars>>

\* line 339: players.pop(addr, None)
SweepPopPlayer ==
    /\ s_pc = "s339"
    /\ players' = Pop(players, s_cur)
    /\ ever_evicted' = IF s_cur \in DOMAIN players
                          THEN ever_evicted \cup {s_cur} ELSE ever_evicted
    /\ s_pc' = "s340"
    /\ UNCHANGED <<clients, player_id_history, next_player_id, snapshot_id, seq_num,
                   grid, processed_events, client_last_seen,
                   now, h_vars, b_vars, s_dead, s_cur, first_writer, evaluated,
                   sock_errs, c_vars, p_vars, x_vars>>

\* line 340: processed_events.pop(addr, None)
SweepPopEvents ==
    /\ s_pc = "s340"
    /\ processed_events' = Pop(processed_events, s_cur)
    /\ s_pc' = "s341"
    /\ UNCHANGED <<clients, players, player_id_history, next_player_id, snapshot_id,
                   seq_num, grid, client_last_seen,
                   now, h_vars, b_vars, s_dead, s_cur, g_vars, c_vars, p_vars, x_vars>>

\* line 341: client_last_seen.pop(addr, None), then the next dead endpoint or sleep
SweepPopSeen ==
    /\ s_pc = "s341"
    /\ client_last_seen' = Pop(client_last_seen, s_cur)
    /\ s_pc' = IF s_dead = {} THEN "sleep" ELSE "s337"
    /\ UNCHANGED <<clients, players, player_id_history, next_player_id, snapshot_id,
                   seq_num, grid, processed_events,
                   now, h_vars, b_vars, s_dead, s_cur, g_vars, c_vars, p_vars, x_vars>>

Sweeper == SweepScan \/ SweepDiscard \/ SweepPopPlayer \/ SweepPopEvents \/ SweepPopSeen

(* ------------------------- broadcast_snapshots ------------------------ *)
\* lines 375-377: every endpoint of current_clients gets the packet, twice
SendAll(targets, packet, copies) ==
    { [to |-> c, copy |-> k, packet |-> packet] : c \in targets, k \in 1..copies }

\* lines 356-359: wake up; with no live client the tick is skipped
BCheck ==
    /\ b_pc = "sleep"
    /\ snapshot_id < MaxSnapshot
    /\ b_pc' = IF clients = {} THEN "sleep" ELSE "b361"
    /\ UNCHANGED <<server_vars, now, h_vars, s_vars, g_vars, c_vars, p_vars, x_vars,
                   b_num, b_used, b_visited, b_roster, b_grid, b_packet, b_targets, b_sent>>

\* lines 361-362: only this thread writes the two counters
BIncrement ==
    /\ b_pc = "b361"
    /\ snapshot_id' = snapshot_id + 1
    /\ seq_num' = seq_num + 1
    /\ b_pc' = "b139"
    /\ UNCHANGED <<clients, players, player_id_history, next_player_id, grid,
                   processed_events, client_last_seen, now, h_vars, s_vars, g_vars, c_vars, p_vars, x_vars,
                   b_num, b_used, b_visited, b_roster, b_grid, b_packet, b_targets, b_sent>>

\* lines 139-141: num_players = len(players)
BCount ==
    /\ b_pc = "b139"
    /\ b_num' = Cardinality(DOMAIN players)
    /\ b_pc' = "b144"
    /\ UNCHANGED <<server_vars, now, h_vars, s_vars, g_vars, c_vars, p_vars, x_vars,
                   b_used, b_visited, b_roster, b_grid, b_packet, b_targets, b_sent>>

\* line 144: the iterator over players.values() remembers the dict's size
BIterate ==
    /\ b_pc = "b144"
    /\ b_used' = Cardinality(DOMAIN players)
    /\ b_pc' = "b144n"
    /\ UNCHANGED <<server_vars, now, h_vars, s_vars, g_vars, c_vars, p_vars, x_vars,
                   b_num, b_visited, b_roster, b_grid, b_packet, b_targets, b_sent>>

\* lines 144-147: one step of the iterator.  It raises RuntimeError (dictionary
\* changed size during iteration) when the dict's size is not the one it was
\* created at; otherwise it packs an entry it has not visited, or stops when
\* there is none.  broadcast_snapshots runs in the main thread and the other
\* two threads are daemons (lines 390-398): the exception ends the process.
BNextPlayer ==
    /\ b_pc = "b144n"
    /\ IF Cardinality(DOMAIN players) # b_used
          THEN /\ b_pc' = "crashed"
               /\ h_pc' = "killed"
               /\ s_pc' = "killed"
               /\ UNCHANGED <<b_visited, b_roster>>
          ELSE IF DOMAIN players \subseteq b_visited
          THEN /\ b_pc' = "b149"
               /\ UNCHANGED <<b_visited, b_roster, h_pc, s_pc>>
          ELSE \E a \in (DOMAIN players) \ b_visited :
               /\ b_visited' = b_visited \cup {a}
               /\ b_roster' = b_roster \cup {players[a]}
               /\ b_pc' = "b144n"
               /\ UNCHANGED <<h_pc, s_pc>>
    /\ UNCHANGED <<server_vars, now, h_cur, h_player_id, h_seen, h_sent, h_dup, h_acq,
                   h_grid0, h_again, h_live, s_dead, s_cur, g_vars, c_vars, p_vars, x_vars,
                   b_num, b_used, b_grid, b_packet, b_targets, b_sent>>

\* lines 149-152 and 365-371: pack the cells of the grid, build the packet.
\* The cells are read in one step: the packet holds the grid of one moment.
BPackGrid ==
    /\ b_pc = "b149"
    /\ b_grid' = grid
    /\ b_packet' = Packet(snapshot_id, seq_num, b_num, b_roster, grid)
    /\ b_pc' = "b374"
    /\ UNCHANGED <<server_vars, now, h_vars, s_vars, g_vars, c_vars, p_vars, x_vars,
                   b_num, b_used, b_visited, b_roster, b_targets, b_sent>>

\* line 374: current_clients = list(clients)
BTargets ==
    /\ b_pc = "b374"
    /\ b_targets' = clients
    /\ b_pc' = "b375"
    /\ UNCHANGED <<server_vars, now, h_vars, s_vars, g_vars, c_vars, p_vars, x_vars,
                   b_num, b_used, b_visited, b_roster, b_grid, b_packet, b_sent>>

\* lines 375-379: send the packet, log the tick
BSend ==
    /\ b_pc = "b375"
    /\ b_sent' = SendAll(b_targets, b_packet, REDUNDANCY)
    /\ b_pc' = "done"
    /\ UNCHANGED <<server_vars, now, h_vars, s_vars, g_vars, c_vars, p_vars, x_vars,
                   b_num, b_used, b_visited, b_roster, b_grid, b_packet, b_targets>>

\* line 355: the loop turns to the next tick; the locals of the last are dead
BLoop ==
    /\ b_pc = "done"
    /\ b_pc' = "sleep"
    /\ b_num' = 0
    /\ b_used' = 0
    /\ b_visited' = {}
    /\ b_roster' = {}
    /\ b_grid' = <<>>
    /\ b_packet' = NoPacket
    /\ b_targets' = {}
    /\ b_sent' = {}
    /\ UNCHANGED <<server_vars, now, h_vars, s_vars, g_vars, c_vars, p_vars, x_vars>>

Broadcaster ==
    \/ BCheck \/ BIncrement \/ BCount \/ BIterate \/ BNextPlayer \/ BPackGrid
    \/ BTargets \/ BSend \/ BLoop

(* ======================= the client programs ========================== *)
(* client.py runs three threads over the state dict and takes no lock:     *)
(* main (the send path), recv_loop and retry_loop.  game_ui.py runs the    *)
(* pygame loop (the send path up to the queue) and NetworkThread.run,      *)
(* which drains the queue, sweeps the pending table and receives, in that  *)
(* order; GameState.lock makes each GameState method one step, and         *)
(* send_lock is held across the steps of send_acquire and of               *)
(* _process_send_queue.                                                    *)
(*                                                                         *)
(* The client's clock advances between passes of the retry sweep: a pass   *)
(* starts every 50 ms (client.py line 177) or at most 100 ms plus the      *)
(* handling of one datagram after the last (game_ui.py lines 173, 293),    *)
(* well inside one ClientTimeStep, unless the sweeping thread has died.    *)
(* ---------------------------------------------------------------------- *)
server_side == <<server_vars, now, h_vars, s_vars, b_vars, g_vars>>

\* the cells a user asks for
ClientTargets == {<<0, 0>>, <<GRID_SIZE - 1, GRID_SIZE - 1>>}
NoEvent == <<0, 0, 0>>

Max0(x) == IF x < 0 THEN 0 ELSE x
Abs(x) == IF x < 0 THEN -x ELSE x
Least(S) == CHOOSE x \in S : \A y \in S : x <= y

\* an entry that does not keep the cell of the request
PendingEntry_Origin(row, col, t) ==
    [row |-> 0, col |-> 0, last_send_ms |-> t, retries |-> 0]

\* client.py lines 239-244, game_ui.py lines 143-148
PendingEntry(row, col, t) ==
    [row |-> row, col |-> col, last_send_ms |-> t, retries |-> 0]

\* one sendto of an EVENT datagram (client.py 237, 208; game_ui.py 210, 249),
\* appended to the history of its event id
Transmit(log, ev, row, col, t) ==
    [log EXCEPT ![ev] = Append(@, [row |-> row, col |-> col, at |-> t])]

\* client.py line 187, game_ui.py line 228: not skipped as too recent
Due(info, t) == ~(t - info.last_send_ms < RETRY_INTERVAL_MS)

\* client.py line 190, game_ui.py line 231
Exhausted(info) == info.retries >= MAX_RETRIES

\* client.py lines 209-210, game_ui.py lines 250-251
Resent(info, t) == [info EXCEPT !.last_send_ms = t, !.retries = @ + 1]

\* the event ids an EVENT_ACK can come back for: those transmitted
AcksIn == {e \in ClientEventIds : sent_events[e] # <<>>}

(* ------------------------------ the clock ----------------------------- *)
ClientTick ==
    /\ c_now < MaxClientTicks * ClientTimeStep
    /\ \/ t_pc = "crashed"
       \/ swept /\ t_pc = "sleep"
    /\ c_now' = c_now + ClientTimeStep
    /\ swept' = FALSE
    /\ UNCHANGED <<server_side, p_vars, x_vars, impl, client_state, snap_state, m_vars, r_vars,
                   t_vars, n_vars, c_rx, k_vars>>

(* ------------------------- client.py: send path ----------------------- *)
\* send_acquire_request without line 228: the counter is read, not advanced
SendAcquireRequest_Reuse(row, col) ==
    /\ impl = "cli"
    /\ m_pc = "idle"
    /\ next_event_id <= MaxClientEvents
    /\ m_ev' = <<next_event_id, row, col>>
    /\ sent_events' = Transmit(sent_events, next_event_id, row, col, c_now)
    /\ m_pc' = "m239"
    /\ UNCHANGED <<server_side, p_vars, x_vars, impl, pending_events, next_event_id, send_queue,
                   send_lock, last_retry_check, snap_state, c_now, r_vars, t_vars,
                   n_vars, c_rx, born, acked, failed, swept>>

\* lines 226-237: allocate the id and transmit
SendAcquireRequest(row, col) ==
    /\ impl = "cli"
    /\ m_pc = "idle"
    /\ next_event_id <= MaxClientEvents
    /\ m_ev' = <<next_event_id, row, col>>
    /\ next_event_id' = next_event_id + 1
    /\ sent_events' = Transmit(sent_events, next_event_id, row, col, c_now)
    /\ m_pc' = "m239"
    /\ UNCHANGED <<server_side, p_vars, x_vars, impl, pending_events, send_queue, send_lock,
                   last_retry_check, snap_state, c_now, r_vars, t_vars, n_vars,
                   c_rx, born, acked, failed, swept>>

\* lines 239-244: insert the pending entry
InsertPending ==
    /\ impl = "cli"
    /\ m_pc = "m239"
    /\ pending_events' = Put(pending_events, m_ev[1], PendingEntry(m_ev[2], m_ev[3], c_now))
    /\ born' = [born EXCEPT ![m_ev[1]] = c_now]
    /\ m_pc' = "idle"
    /\ m_ev' = NoEvent
    /\ UNCHANGED <<server_side, p_vars, x_vars, impl, next_event_id, send_queue, send_lock,
                   last_retry_check, snap_state, c_now, r_vars, t_vars, n_vars,
                   c_rx, sent_events, acked, failed, swept>>

(* ------------------------- client.py: recv_loop ----------------------- *)
\* lines 102-113, 157-166: an EVENT_ACK arrives; is its id pending
RecvAck ==
    /\ impl = "cli"
    /\ r_pc = "recv"
    /\ \E e \in AcksIn :
         /\ acked' = acked \cup {e}
         /\ IF e \in DOMAIN pending_events
               THEN r_pc' = "r167" /\ r_ev' = e
               ELSE UNCHANGED r_vars
    /\ UNCHANGED <<server_side, p_vars, x_vars, impl, client_state, snap_state, c_now, m_vars,
                   t_vars, n_vars, c_rx, sent_events, born, failed, swept>>

\* line 167: del pending[ev_id]; KeyError ends the thread
RecvAckDel ==
    /\ impl = "cli"
    /\ r_pc = "r167"
    /\ IF r_ev \in DOMAIN pending_events
          THEN /\ pending_events' = Pop(pending_events, r_ev)
               /\ r_pc' = "recv"
          ELSE /\ r_pc' = "crashed"
               /\ UNCHANGED pending_events
    /\ r_ev' = 0
    /\ UNCHANGED <<server_side, p_vars, x_vars, impl, next_event_id, send_queue, send_lock,
                   last_retry_check, snap_state, c_now, m_vars, t_vars, n_vars,
                   c_rx, k_vars, swept>>

(* ------------------------- client.py: retry_loop ---------------------- *)
\* lines 177-182: wake, read the clock, copy the keys
RetrySweepBegin ==
    /\ impl = "cli"
    /\ t_pc = "sleep"
    /\ t_now' = c_now
    /\ t_keys' = DOMAIN pending_events
    /\ t_pc' = "t183"
    /\ UNCHANGED <<server_side, p_vars, x_vars, impl, client_state, snap_state, c_now, m_vars,
                   r_vars, n_vars, c_rx, k_vars, swept, t_ev>>

\* lines 182-191: the next key (dict order is insertion order, the order of
\* the ids); pending.get, the interval test and the retry-limit test, which
\* read the entry object that only this thread changes.  The failure is
\* printed at line 191, before the del.
RetryGet ==
    /\ impl = "cli"
    /\ t_pc = "t183"
    /\ IF t_keys = {}
          THEN /\ t_pc' = "sleep"
               /\ swept' = TRUE
               /\ t_now' = 0
               /\ UNCHANGED <<t_keys, t_ev, failed>>
          ELSE LET ev == Least(t_keys) IN
               /\ t_keys' = t_keys \ {ev}
               /\ UNCHANGED <<t_now, swept>>
               /\ IF ev \notin DOMAIN pending_events
                     THEN t_pc' = "t183" /\ UNCHANGED <<t_ev, failed>>
                     ELSE LET info == pending_events[ev] IN
                          IF ~Due(info, t_now)
                             THEN t_pc' = "t183" /\ UNCHANGED <<t_ev, failed>>
                          ELSE IF Exhausted(info)
                             THEN /\ t_pc' = "t192"
                                  /\ t_ev' = <<ev, info.row, info.col>>
                                  /\ failed' = failed \cup {ev}
                             ELSE /\ t_pc' = "t208"
                                  /\ t_ev' = <<ev, info.row, info.col>>
                                  /\ UNCHANGED failed
    /\ UNCHANGED <<server_side, p_vars, x_vars, impl, client_state, snap_state, c_now, m_vars,
                   r_vars, n_vars, c_rx, sent_events, born, acked>>

\* line 192: del pending[ev_id]; KeyError ends the thread
RetryDel ==
    /\ impl = "cli"
    /\ t_pc = "t192"
    /\ IF t_ev[1] \in DOMAIN pending_events
          THEN /\ pending_events' = Pop(pending_events, t_ev[1])
               /\ t_pc' = "t183"
          ELSE /\ t_pc' = "crashed"
               /\ UNCHANGED pending_events
    /\ t_ev' = NoEvent
    /\ UNCHANGED <<server_side, p_vars, x_vars, impl, next_event_id, send_queue, send_lock,
                   last_retry_check, snap_state, c_now, m_vars, r_vars, n_vars,
                   c_rx, k_vars, swept, t_now, t_keys>>

\* lines 196-210: resend, then update the entry object, which is in the table
\* unless the receive path has removed it since line 183
RetryResend ==
    /\ impl = "cli"
    /\ t_pc = "t208"
    /\ sent_events' = Transmit(sent_events, t_ev[1], t_ev[2], t_ev[3], c_now)
    /\ pending_events' = IF t_ev[1] \in DOMAIN pending_events
                            THEN [pending_events EXCEPT ![t_ev[1]] = Resent(@, t_now)]
                            ELSE pending_events
    /\ t_pc' = "t183"
    /\ t_ev' = NoEvent
    /\ UNCHANGED <<server_side, p_vars, x_vars, impl, next_event_id, send_queue, send_lock,
                   last_retry_check, snap_state, c_now, m_vars, r_vars, n_vars,
                   c_rx, born, acked, failed, swept, t_now, t_keys>>

(* ------------------------ game_ui.py: send path ----------------------- *)
\* line 497 (104-108): a click on a cell the cached grid shows unclaimed
UiGetCell(row, col) ==
    /\ impl = "ui"
    /\ m_pc = "idle"
    /\ next_event_id <= MaxClientEvents
    /\ c_grid[CellIndex(row, col)] = 0
    /\ m_ev' = <<0, row, col>>
    /\ m_pc' = "u498"
    /\ UNCHANGED <<server_side, p_vars, x_vars, impl, client_state, snap_state, c_now, r_vars,
                   t_vars, n_vars, c_rx, k_vars, swept>>

\* line 498 (110-116): no pending entry is for that cell
UiIsPending ==
    /\ impl = "ui"
    /\ m_pc = "u498"
    /\ IF \E e \in DOMAIN pending_events :
             pending_events[e].row = m_ev[2] /\ pending_events[e].col = m_ev[3]
          THEN m_pc' = "idle" /\ m_ev' = NoEvent
          ELSE m_pc' = "u194" /\ UNCHANGED m_ev
    /\ UNCHANGED <<server_side, p_vars, x_vars, impl, client_state, snap_state, c_now, r_vars,
                   t_vars, n_vars, c_rx, k_vars, swept>>

\* line 194: with self.send_lock
UiSendAcquireLock ==
    /\ impl = "ui"
    /\ m_pc = "u194"
    /\ send_lock = "free"
    /\ send_lock' = "ui"
    /\ m_pc' = "u195"
    /\ UNCHANGED <<server_side, p_vars, x_vars, impl, pending_events, next_event_id, send_queue,
                   last_retry_check, snap_state, c_now, m_ev, r_vars, t_vars,
                   n_vars, c_rx, k_vars, swept>>

\* lines 195-199: allocate the id, queue the request, release send_lock
UiSendAcquire ==
    /\ impl = "ui"
    /\ m_pc = "u195"
    /\ next_event_id' = next_event_id + 1
    /\ send_queue' = Append(send_queue, <<next_event_id, m_ev[2], m_ev[3]>>)
    /\ send_lock' = "free"
    /\ m_pc' = "idle"
    /\ m_ev' = NoEvent
    /\ UNCHANGED <<server_side, p_vars, x_vars, impl, pending_events, last_retry_check,
                   snap_state, c_now, r_vars, t_vars, n_vars, c_rx, k_vars, swept>>

(* --------------------- game_ui.py: NetworkThread.run ------------------ *)
\* lines 289, 216: with self.send_lock
NetQueueLock ==
    /\ impl = "ui"
    /\ n_pc = "n289"
    /\ send_lock = "free"
    /\ send_lock' = "net"
    /\ n_pc' = "n217"
    /\ UNCHANGED <<server_side, p_vars, x_vars, impl, pending_events, next_event_id, send_queue,
                   last_retry_check, snap_state, c_now, m_vars, r_vars, t_vars,
                   n_ev, c_rx, k_vars, swept>>

\* lines 217-219, 203-210: the queue is empty and the lock released, or its
\* head is popped and transmitted
NetQueuePop ==
    /\ impl = "ui"
    /\ n_pc = "n217"
    /\ IF send_queue = <<>>
          THEN /\ send_lock' = "free"
               /\ n_pc' = "n292"
               /\ UNCHANGED <<send_queue, n_ev, sent_events>>
          ELSE LET q == Head(send_queue) IN
               /\ send_queue' = Tail(send_queue)
               /\ n_ev' = q
               /\ sent_events' = Transmit(sent_events, q[1], q[2], q[3], c_now)
               /\ n_pc' = "n211"
               /\ UNCHANGED send_lock
    /\ UNCHANGED <<server_side, p_vars, x_vars, impl, pending_events, next_event_id,
                   last_retry_check, snap_state, c_now, m_vars, r_vars, t_vars,
                   c_rx, born, acked, failed, swept>>

\* lines 211, 140-148: add_pending_event
NetAddPending ==
    /\ impl = "ui"
    /\ n_pc = "n211"
    /\ pending_events' = Put(pending_events, n_ev[1], PendingEntry(n_ev[2], n_ev[3], c_now))
    /\ born' = [born EXCEPT ![n_ev[1]] = c_now]
    /\ n_pc' = "n217"
    /\ n_ev' = NoEvent
    /\ UNCHANGED <<server_side, p_vars, x_vars, impl, next_event_id, send_queue, send_lock,
                   last_retry_check, snap_state, c_now, m_vars, r_vars, t_vars,
                   c_rx, sent_events, acked, failed, swept>>

\* lines 221-255, _handle_retries under GameState.lock: the table it leaves,
\* the ids it resends and the ids it reports failed
HandleRetries(pending, t) ==
    [e \in {x \in DOMAIN pending : ~(Due(pending[x], t) /\ Exhausted(pending[x]))} |->
        IF Due(pending[e], t) THEN Resent(pending[e], t) ELSE pending[e]]
RetriesResent(pending, t) ==
    {e \in DOMAIN pending : Due(pending[e], t) /\ ~Exhausted(pending[e])}
RetriesFailed(pending, t) ==
    {e \in DOMAIN pending : Due(pending[e], t) /\ Exhausted(pending[e])}

\* lines 292-295
NetRetryCheck ==
    /\ impl = "ui"
    /\ n_pc = "n292"
    /\ IF c_now - last_retry_check > RETRY_CHECK_MS
          THEN /\ pending_events' = HandleRetries(pending_events, c_now)
               /\ sent_events' =
                    [e \in ClientEventIds |->
                        IF e \in RetriesResent(pending_events, c_now)
                           THEN Append(sent_events[e],
                                       [row |-> pending_events[e].row,
                                        col |-> pending_events[e].col, at |-> c_now])
                           ELSE sent_events[e]]
               /\ failed' = failed \cup RetriesFailed(pending_events, c_now)
               /\ last_retry_check' = c_now
               /\ swept' = TRUE
          ELSE UNCHANGED <<pending_events, sent_events, failed, last_retry_check, swept>>
    /\ n_pc' = "n299"
    /\ UNCHANGED <<server_side, p_vars, x_vars, impl, next_event_id, send_queue, send_lock,
                   snap_state, c_now, m_vars, r_vars, t_vars, n_ev, c_rx, born, acked>>

\* lines 298-301: recvfrom times out
NetRecvTimeout ==
    /\ impl = "ui"
    /\ n_pc = "n299"
    /\ n_pc' = "n289"
    /\ UNCHANGED <<server_side, p_vars, x_vars, impl, client_state, snap_state, c_now, m_vars,
                   r_vars, t_vars, n_ev, c_rx, k_vars, swept>>

\* lines 299-315, 335-343, 150-156: an EVENT_ACK arrives; ack_event
NetRecvAck ==
    /\ impl = "ui"
    /\ n_pc = "n299"
    /\ \E e \in AcksIn :
         /\ acked' = acked \cup {e}
         /\ pending_events' = IF e \in DOMAIN pending_events
                                 THEN Pop(pending_events, e)
                                 ELSE pending_events
    /\ n_pc' = "n289"
    /\ UNCHANGED <<server_side, p_vars, x_vars, impl, next_event_id, send_queue, send_lock,
                   last_retry_check, snap_state, c_now, m_vars, r_vars, t_vars,
                   n_ev, c_rx, sent_events, born, failed, swept>>

(* ----------------------------- snapshots ------------------------------ *)
\* struct's "!f" of float(n), n in 0..255: sign 0, exponent 127 + e where
\* 2^e <= n < 2^(e+1), the fraction n - 2^e at the top of 23 bits; 0.0 is four
\* zero bytes
FloatBytes(n) ==
    IF n = 0
       THEN <<0, 0, 0, 0>>
       ELSE LET e == CHOOSE k \in 0..7 : 2^k <= n /\ n < 2^(k + 1)
                bits == (127 + e) * 2^23 + (n - 2^e) * 2^(23 - e)
            IN  <<bits \div 2^24, (bits \div 2^16) % 256, (bits \div 2^8) % 256, bits % 256>>
\* server.py lines 144-147: one roster entry, "!B f f" of the id, float(id), 0.0
RosterBytes(pid) == <<pid>> \o FloatBytes(pid) \o FloatBytes(0)
\* the N*N cell bytes of a grid whose cells in owned (counted from 1) belong
\* to player 1
CellBytes(owned) ==
    [i \in 1..(GRID_SIZE * GRID_SIZE) |-> IF i \in owned THEN 1 ELSE 0]
\* SNAPSHOT payloads: grid size, player count, roster, cells (server.py lines
\* 139-152); one too short to hold the two counts, and one of grid size 0
Payloads ==
    { <<GRID_SIZE, 0>> \o CellBytes({1}),
      <<GRID_SIZE, 1>> \o RosterBytes(1) \o CellBytes({1, 2}),
      <<GRID_SIZE>>,
      <<0, 0>> }
SnapshotTimes == {0, 2 * ClientTimeStep}
SnapshotsIn ==
    { [snapshot_id |-> s, server_timestamp |-> t, payload |-> p] :
        s \in 1..MaxSnapshotIn, t \in SnapshotTimes, p \in Payloads }

\* game_ui.py lines 257-280, _decode_snapshot: the grid cells, padded with 0;
\* <<>> stands for None too, as line 332 tests the result for truth only
DecodeSnapshot(payload) ==
    IF Len(payload) < 2
       THEN <<>>
       ELSE LET N == payload[1]
                offset == 2 + payload[2] * player_struct_size
            IN  [i \in 1..(N * N) |->
                    IF offset + i - 1 < Len(payload) THEN payload[offset + i] ELSE 0]

\* game_ui.py lines 134-136
UpdateGrid(g, grid_data) ==
    [i \in Cells |-> IF i < Len(grid_data) THEN grid_data[i + 1] ELSE g[i]]

\* (mutant) the cursor's own id is let through
Stale_Strict(sid, last) == sid < last

\* client.py line 127, game_ui.py line 121: the snapshot is discarded
Stale(sid, last) == sid <= last

\* client.py lines 136-138, game_ui.py line 329
Latency(rx, ts) == Max0(rx - ts)

\* client.py lines 102-113, 121-124: a SNAPSHOT arrives
RecvSnapshotFrom ==
    /\ impl = "cli"
    /\ r_pc = "recv"
    /\ \E d \in SnapshotsIn : c_rx' = d
    /\ r_pc' = "r127"
    /\ UNCHANGED <<server_side, p_vars, x_vars, impl, client_state, snap_state, c_now, m_vars,
                   r_ev, t_vars, n_vars, k_vars, swept>>

\* client.py lines 127-155: the filter, the cursor, latency and jitter, and the
\* row written to the snapshot log
RecvSnapshot ==
    /\ impl = "cli"
    /\ r_pc = "r127"
    /\ IF Stale(c_rx.snapshot_id, last_snapshot_id)
          THEN UNCHANGED snap_state
          ELSE LET latency_ms == Latency(c_now, c_rx.server_timestamp)
                   jitter == IF last_snapshot_latency_ms = -1
                                THEN 0
                                ELSE Abs(latency_ms - last_snapshot_latency_ms)
               IN  /\ last_snapshot_id' = c_rx.snapshot_id
                   /\ last_snapshot_latency_ms' = latency_ms
                   /\ samples' = Append(samples, <<c_rx.snapshot_id, latency_ms, jitter>>)
                   /\ UNCHANGED <<jitter_ms, c_grid>>
    /\ r_pc' = "recv"
    /\ UNCHANGED <<server_side, p_vars, x_vars, impl, client_state, c_now, m_vars, r_ev, t_vars,
                   n_vars, c_rx, k_vars, swept>>

\* game_ui.py lines 299-315, 325-328: a SNAPSHOT arrives
NetRecvSnapshotFrom ==
    /\ impl = "ui"
    /\ n_pc = "n299"
    /\ \E d \in SnapshotsIn : c_rx' = d
    /\ n_pc' = "n325"
    /\ UNCHANGED <<server_side, p_vars, x_vars, impl, client_state, snap_state, c_now, m_vars,
                   r_vars, t_vars, n_ev, k_vars, swept>>

\* game_ui.py lines 329-333, 118-138: decode, and update_from_snapshot if the
\* decoded grid is not empty
NetSnapshot ==
    /\ impl = "ui"
    /\ n_pc = "n325"
    /\ LET latency == Latency(c_now, c_rx.server_timestamp)
           grid_data == DecodeSnapshot(c_rx.payload)
       IN  IF grid_data = <<>> \/ Stale(c_rx.snapshot_id, last_snapshot_id)
              THEN UNCHANGED snap_state
              ELSE /\ last_snapshot_id' = c_rx.snapshot_id
                   /\ jitter_ms' = IF last_snapshot_latency_ms # -1
                                      THEN Abs(latency - last_snapshot_latency_ms)
                                      ELSE jitter_ms
                   /\ last_snapshot_latency_ms' = latency
                   /\ c_grid' = UpdateGrid(c_grid, grid_data)
                   /\ samples' = Append(samples, <<c_rx.snapshot_id, latency, jitter_ms'>>)
    /\ n_pc' = "n289"
    /\ UNCHANGED <<server_side, p_vars, x_vars, impl, client_state, c_now, m_vars, r_vars,
                   t_vars, n_ev, c_rx, k_vars, swept>>

(* --------------------------- specifications --------------------------- *)
\* the message handler and the sweeper, on the datagrams the handler decodes
Next == Tick \/ Handler \/ Sweeper

Spec == Init /\ [][Next]_vars

\* Datagrams of the broadcast specification: joins
JoinDatagrams == { JoinDgram(a) : a \in Addrs }

HRecvJoin == HRecvOf(JoinDatagrams)

\* all three threads, on JOIN datagrams
NextBroadcast == Tick \/ HRecvJoin \/ JoinSteps \/ Sweeper \/ Broadcaster

SpecBroadcast == Init /\ [][NextBroadcast]_vars

\* the reliability layer of either client: the send path, the retry sweep and
\* the acks received
SendAny == \E rc \in ClientTargets : SendAcquireRequest(rc[1], rc[2])
UiClick == \E rc \in ClientTargets : UiGetCell(rc[1], rc[2])

NextRetry ==
    \/ ClientTick
    \/ SendAny \/ InsertPending \/ RecvAck \/ RecvAckDel
    \/ RetrySweepBegin \/ RetryGet \/ RetryDel \/ RetryResend
    \/ UiClick \/ UiIsPending \/ UiSendAcquireLock \/ UiSendAcquire
    \/ NetQueueLock \/ NetQueuePop \/ NetAddPending \/ NetRetryCheck
    \/ NetRecvTimeout \/ NetRecvAck

SpecRetry == InitClients /\ [][NextRetry]_vars

\* the snapshot path of either client, with its loops
NextSnapshot ==
    \/ ClientTick
    \/ RetrySweepBegin \/ RetryGet \/ RecvSnapshotFrom \/ RecvSnapshot
    \/ NetQueueLock \/ NetQueuePop \/ NetRetryCheck \/ NetRecvTimeout
    \/ NetRecvSnapshotFrom \/ NetSnapshot

SpecSnapshot == InitClients /\ [][NextSnapshot]_vars

(* ================================ claims =============================== *)

\* C1: grid ownership is monotonic per cell.  In every step of the handler and
\* the sweeper, a cell whose owner is non-zero keeps exactly that owner: it
\* never goes back to 0 and never passes to another player id.
C1_GridMonotonic ==
    [][\A c \in Cells : grid[c] # 0 => grid'[c] = grid[c]]_vars

\* C1 witness: a cell is owned by a player whose endpoint has been evicted,
\* and another player's request for that cell has been evaluated and acked.
C1_Witness ==
    /\ h_pc = "done"
    /\ h_acq = "owned"
    /\ \E a \in ever_evicted :
          /\ a \notin DOMAIN players
          /\ a # h_cur.addr
          /\ grid[CellIndex(h_cur.row, h_cur.col)] = player_id_history[a]

\* C2: for every EVENT datagram the handler receives and decodes, by the time
\* it is through with the datagram (back at recvfrom, or dead) it has sent
\* exactly one packet, the EVENT_ACK carrying that datagram's event id, to the
\* sender.
C2_OneAckPerEvent ==
    (IsEvent(h_cur) /\ h_pc \in {"done", "crashed"})
        => h_sent = <<EventAck(h_cur.addr, h_cur.event_id)>>

C4_FirstWriterWins ==
    /\ grid = first_writer
    /\ h_acq = "owned" => grid = h_grid0
    /\ h_acq = "applied" =>
          /\ h_grid0[CellIndex(h_cur.row, h_cur.col)] = 0
          /\ grid = [h_grid0 EXCEPT ![CellIndex(h_cur.row, h_cur.col)] = h_player_id]

\* C4 witness: player 2 owns a cell and the request of player 1 (the endpoint
\* of first contact) for that cell has been rejected and acked.
C4_Witness ==
    /\ h_pc = "done"
    /\ h_acq = "owned"
    /\ h_player_id = 1
    /\ grid[CellIndex(h_cur.row, h_cur.col)] = 2
    /\ h_sent = <<EventAck(h_cur.addr, h_cur.event_id)>>

\* C5: identity persistence.  A step that puts an evicted endpoint back into
\* the player registry gives it the id the history holds for it, allocates no
\* id and leaves the history alone; and in every step the cells owned by an
\* evicted endpoint's id stay owned by it.
C5_IdentityPersistence ==
    [][\A a \in ever_evicted :
          /\ (a \notin DOMAIN players /\ a \in DOMAIN players') =>
                /\ players'[a] = player_id_history[a]
                /\ next_player_id' = next_player_id
                /\ player_id_history' = player_id_history
          /\ \A c \in Cells :
                grid[c] = player_id_history[a] => grid'[c] = player_id_history[a]]_vars

\* C5 witness: an endpoint that owned a cell was evicted; its event, delivered
\* again, has registered it again with the id that owns the cell.
C5_Witness ==
    /\ h_pc = "done"
    /\ IsEvent(h_cur)
    /\ h_again
    /\ ~h_dup
    /\ h_cur.addr \in ever_evicted
    /\ h_cur.addr \in clients
    /\ h_cur.addr \in DOMAIN players
    /\ players[h_cur.addr] = player_id_history[h_cur.addr]
    /\ grid[CellIndex(h_cur.row, h_cur.col)] = players[h_cur.addr]

\* C6: player ids are never shared or reused.  The history map is injective, an
\* entry never changes or disappears once written, and the k-th endpoint to
\* make first contact gets id k.
C6_IdsNeverShared ==
    /\ [](\A a, b \in DOMAIN player_id_history :
             a # b => player_id_history[a] # player_id_history[b])
    /\ [][/\ \A a \in DOMAIN player_id_history :
                /\ a \in DOMAIN player_id_history'
                /\ player_id_history'[a] = player_id_history[a]
          /\ \A a \in (DOMAIN player_id_history') \ (DOMAIN player_id_history) :
                player_id_history'[a] = Cardinality(DOMAIN player_id_history) + 1]_vars

\* C6 witness: two endpoints hold ids 1 and 2, and the holder of id 1 has been
\* evicted and registered again.
C6_Witness ==
    \E a, b \in DOMAIN players :
       /\ players[a] = 1
       /\ players[b] = 2
       /\ a \in ever_evicted
       /\ next_player_id = 3

\* C7: retry bound.  No event id is transmitted more than 1 + MAX_RETRIES times;
\* consecutive transmissions of an id are at least RETRY_INTERVAL_MS apart; an
\* id is reported failed only after 1 + MAX_RETRIES transmissions; and an event
\* no ACK has come for, whose entry was inserted at least MAX_RETRIES + 1 clock
\* steps before the clock's last value, has by the end of the retry pass at
\* that value been transmitted 1 + MAX_RETRIES times, reported failed and
\* removed from the pending table.
C7_RetryBound ==
    LET last_pass == /\ c_now = MaxClientTicks * ClientTimeStep
                     /\ (swept /\ t_pc = "sleep") \/ t_pc = "crashed"
        deadline == (MaxClientTicks - (MAX_RETRIES + 1)) * ClientTimeStep
    IN  \A e \in ClientEventIds :
          /\ Len(sent_events[e]) <= 1 + MAX_RETRIES
          /\ \A i \in 2..Len(sent_events[e]) :
                sent_events[e][i].at - sent_events[e][i - 1].at >= RETRY_INTERVAL_MS
          /\ e \in failed => Len(sent_events[e]) = 1 + MAX_RETRIES
          /\ (last_pass /\ e \notin acked /\ born[e] >= 0 /\ born[e] <= deadline) =>
                /\ Len(sent_events[e]) = 1 + MAX_RETRIES
                /\ e \in failed
                /\ e \notin DOMAIN pending_events

\* C8: every pending entry is eventually removed.  An entry inserted at least
\* MAX_RETRIES + 1 clock steps before the clock's last value is out of the
\* pending table by the end of the retry pass at that value, whatever ACKs
\* arrived and however the send path, the receive path and the sweep
\* interleaved.
C8_PendingRemoved ==
    (/\ c_now = MaxClientTicks * ClientTimeStep
     /\ (swept /\ t_pc = "sleep") \/ t_pc = "crashed")
       => \A e \in DOMAIN pending_events :
             born[e] > (MaxClientTicks - (MAX_RETRIES + 1)) * ClientTimeStep

\* C9: snapshot staleness filter.  The cursor, the latency and jitter values,
\* the cached grid and the sample log change only in a step that handles a
\* SNAPSHOT whose id is greater than the cursor; such a step (in game_ui.py, if
\* the payload decodes to a grid) moves the cursor to that id, logs one sample
\* with that id and its latency and, in game_ui.py, caches the decoded grid;
\* and the ids of the samples logged are strictly increasing, so that no tick
\* yields two.
C9_StalenessFilter ==
    /\ [](\A i, j \in DOMAIN samples : i < j => samples[i][1] < samples[j][1])
    /\ [][LET handled == \/ impl = "cli" /\ r_pc = "r127" /\ r_pc' = "recv"
                         \/ impl = "ui" /\ n_pc = "n325" /\ n_pc' = "n289"
              fresh == c_rx.snapshot_id > last_snapshot_id
              grid_data == DecodeSnapshot(c_rx.payload)
              usable == impl = "cli" \/ grid_data # <<>>
          IN  /\ snap_state' # snap_state => handled /\ fresh
              /\ (handled /\ fresh /\ usable) =>
                    /\ last_snapshot_id' = c_rx.snapshot_id
                    /\ Len(samples') = Len(samples) + 1
                    /\ samples'[Len(samples')][1] = c_rx.snapshot_id
                    /\ samples'[Len(samples')][2] = Max0(c_now - c_rx.server_timestamp)
                    /\ last_snapshot_latency_ms' = samples'[Len(samples')][2]
                    /\ impl = "ui" =>
                          \A i \in Cells : i < Len(grid_data) => c_grid'[i] = grid_data[i + 1]
         ]_vars

\* a snapshot was applied after another, and the one handled last, older than
\* the cursor, has been discarded
C9_Witness ==
    /\ Len(samples) = 2
    /\ r_pc = "recv"
    /\ n_pc = "n289"
    /\ c_rx.snapshot_id < last_snapshot_id
    /\ c_rx.snapshot_id \notin {samples[i][1] : i \in DOMAIN samples}

\* C10: every broadcast tick that consumes a snapshot id sends exactly two
\* copies of one packet, carrying that id, to every live endpoint: when the
\* tick is over (the loop is back at its sleep, or the thread is dead) each
\* endpoint of the live set has been sent the packet twice, and nothing else
\* has been sent.
C10_TwoCopiesPerTick ==
    b_pc \in {"done", "crashed"} =>
        LET live == IF b_pc = "done" THEN b_targets ELSE clients IN
        /\ \A c \in live : Cardinality({m \in b_sent : m.to = c}) = REDUNDANCY
        /\ \A m \in b_sent : m.to \in live /\ m.packet.snapshot_id = snapshot_id

\* C11: a broadcast tick consumes a snapshot id only if it sends at least one
\* packet.  A tick that has run to its end (it consumed an id at line 361)
\* has sent a packet, and a thread asleep between ticks has sent none, also
\* when the sweeper evicts the last live endpoint while the tick runs.
C11_IdOnlyIfSent ==
    /\ b_pc = "done" => b_sent # {}
    /\ b_pc = "sleep" => b_sent = {}

\* C12: eviction effect and frame.  Every step of the sweeper leaves the grid,
\* the identity history, the next-player-id counter and the snapshot id as
\* they were; the step of line 338 takes a dead endpoint out of the live set,
\* and the steps of lines 339, 340 and 341 take that endpoint, and no other,
\* out of the player registry, the applied-event map and the last-seen map.
C12_EvictionFrame ==
    [][(s_pc' # s_pc /\ s_pc' # "killed") =>
          /\ grid' = grid
          /\ player_id_history' = player_id_history
          /\ next_player_id' = next_player_id
          /\ snapshot_id' = snapshot_id
          /\ s_pc = "sleep" =>
                <<clients, players, processed_events, client_last_seen>>'
                   = <<clients, players, processed_events, client_last_seen>>
          /\ s_pc = "s337" =>
                /\ s_cur' \in s_dead
                /\ clients' = clients \ {s_cur'}
                /\ <<players, processed_events, client_last_seen>>'
                      = <<players, processed_events, client_last_seen>>
          /\ s_pc = "s339" =>
                /\ DOMAIN players' = (DOMAIN players) \ {s_cur}
                /\ \A a \in DOMAIN players' : players'[a] = players[a]
                /\ <<clients, processed_events, client_last_seen>>'
                      = <<clients, processed_events, client_last_seen>>
          /\ s_pc = "s340" =>
                /\ DOMAIN processed_events' = (DOMAIN processed_events) \ {s_cur}
                /\ \A a \in DOMAIN processed_events' :
                      processed_events'[a] = processed_events[a]
                /\ <<clients, players, client_last_seen>>'
                      = <<clients, players, client_last_seen>>
          /\ s_pc = "s341" =>
                /\ DOMAIN client_last_seen' = (DOMAIN client_last_seen) \ {s_cur}
                /\ \A a \in DOMAIN client_last_seen' :
                      client_last_seen'[a] = client_last_seen[a]
                /\ <<clients, players, processed_events>>'
                      = <<clients, players, processed_events>>]_vars

\* C12 witness: the sweeper has finished evicting an endpoint that owns a
\* cell: the endpoint is in none of the four collections, the cell is still its.
C12_Witness ==
    /\ s_pc = "sleep"
    /\ \E a \in ever_evicted :
          /\ a \notin clients
          /\ a \notin DOMAIN players
          /\ a \notin DOMAIN processed_events
          /\ a \notin DOMAIN client_last_seen
          /\ \E c \in Cells : grid[c] = player_id_history[a]

\* C13: the sweeper evicts only the silent.  In the step that takes an endpoint
\* out of the live set (line 338), the time since the endpoint's last-seen
\* timestamp exceeds CLIENT_TIMEOUT_MS, however the sweeper and the handler
\* interleave.
C13_EvictOnlySilent ==
    [][(s_pc = "s337" /\ s_pc' = "s339") =>
          now - LastSeen(client_last_seen, s_cur', now) > CLIENT_TIMEOUT_MS]_vars

\* C14: every step the handler takes for a JOIN whose sender line 229 found in
\* the live set leaves the live set, the registry, the applied-event map, the
\* grid, the history and the id counter as they were and changes the last-seen
\* map at most at the sender; none of these steps ends the handler thread, and
\* the handling ends with exactly one datagram sent, the JOIN_ACK to the sender
\* with the player id it had.
C14_LiveJoin ==
    [][(h_pc \in {"j229", "j246", "j247"} /\ h_pc' \notin {h_pc, "killed"} /\ h_live') =>
          /\ UNCHANGED <<clients, players, processed_events, grid,
                         player_id_history, next_player_id>>
          /\ \A a \in Addrs \ {h_cur.addr} :
                LastSeen(client_last_seen', a, 0 - 1) = LastSeen(client_last_seen, a, 0 - 1)
          /\ h_pc' # "crashed"
          /\ h_pc' # "done" => h_sent' = h_sent
          /\ h_pc' = "done" =>
                /\ h_sent' = <<JoinAck(h_cur.addr, player_id_history[h_cur.addr])>>
                /\ client_last_seen'[h_cur.addr] = now]_vars

(* ------------------- the handler on every kind of datagram ------------- *)
HRecvAny == HRecvOf(AllDatagrams)

NextDecode == Tick \/ HRecvAny \/ JoinSteps \/ EventSteps \/ Sweeper

SpecDecode == Init /\ [][NextDecode]_vars

\* C15: the step that receives a datagram shorter than a header, with a wrong
\* protocol tag or an unsupported version, or an EVENT whose payload is shorter
\* than an event record, changes no server state and sends nothing, and leaves
\* the handler at the end of the loop body, from where its only step is back
\* to recvfrom.
C15_MalformedDropped ==
    /\ [][(h_pc = "recv" /\ h_pc' \notin {"recv", "killed"} /\
             (\/ h_cur'.size < HEADER_SIZE
              \/ ~h_cur'.proto_ok
              \/ h_cur'.version # VERSION
              \/ (h_cur'.msg_type = MSG_EVENT /\
                    (h_cur'.payload_len < EVENT_SIZE \/
                     h_cur'.size - HEADER_SIZE < EVENT_SIZE)))) =>
             /\ UNCHANGED <<server_vars, h_sent>>
             /\ h_sent = <<>>
             /\ h_pc' = "done"]_vars
    /\ [][(h_pc = "done" /\ h_pc' \notin {"done", "killed"}) => h_pc' = "recv"]_vars

\* a malformed datagram of a live endpoint that holds a cell has been dropped
C15_Witness ==
    /\ h_pc = "done"
    /\ h_cur \in OddDgrams
    /\ h_cur.addr \in clients
    /\ \E c \in Cells : grid[c] # 0

\* C16: whenever the sweeper starts a scan (lines 330-335), and whenever the
\* handler tests or looks up the sender of a datagram outside its own
\* registration (lines 229, 246, 270, 285, 288, 167, 171), the live set, the
\* registry and the applied-event map hold the same endpoints.
C16_AtomicAccess ==
    [][LET same == /\ clients = DOMAIN players
                   /\ clients = DOMAIN processed_events
       IN  /\ (s_pc = "sleep" /\ s_pc' = "s337") => same
           /\ (h_pc \in {"j229", "j246", "e270", "e285", "e289", "a167", "a171"} /\
               h_pc' \notin {h_pc, "killed"}) => same]_vars

\* C17: when the retry sweep deletes an entry it found exhausted (client.py
\* line 192) or resends an event and updates its entry (lines 196-209), the
\* entry it read is still in the pending table; in game_ui.py the whole sweep
\* is one step under the state lock, so the sweep is never between its read
\* and its write.
C17_SweepExclusive ==
    [][(t_pc \in {"t192", "t208"} /\ t_pc' # t_pc) =>
          t_ev[1] \in DOMAIN pending_events]_vars

\* C18: handling an EVENT_ACK never fails; if its id is in the pending table
\* the handling removes that entry and keeps every other entry as it is, and
\* if its id is not in the table the table stays as it is; the id counter, the
\* send queue, the snapshot cursor and the cached grid never change with it.
C18_AckMatching ==
    [][/\ (r_pc = "r167" /\ r_pc' # r_pc) =>
             /\ r_pc' = "recv"
             /\ r_ev \in DOMAIN pending_events
             /\ pending_events' = [e \in (DOMAIN pending_events) \ {r_ev} |-> pending_events[e]]
             /\ UNCHANGED <<next_event_id, send_queue, snap_state>>
       /\ (impl = "cli" /\ r_pc = "recv" /\ acked' # acked) =>
             /\ r_pc' = "r167" <=> (\E e \in DOMAIN pending_events : acked' = acked \cup {e})
             /\ UNCHANGED <<pending_events, next_event_id, send_queue, snap_state>>
       /\ (impl = "ui" /\ n_pc = "n299" /\ acked' # acked) =>
             /\ \E e \in ClientEventIds :
                   /\ acked' = acked \cup {e}
                   /\ pending_events' = [x \in (DOMAIN pending_events) \ {e} |-> pending_events[x]]
             /\ UNCHANGED <<next_event_id, send_queue, snap_state>>]_vars

\* C19: every EVENT datagram sent for an event id after the first one names
\* the row and the column of the first one (the datagrams of an id are those
\* built with that id, at client.py lines 228-237 and 196-207 and game_ui.py
\* lines 198-210 and 237-249).
C19_SameEventResent ==
    \A e \in ClientEventIds :
       \A i \in 1..Len(sent_events[e]) :
          /\ sent_events[e][i].row = sent_events[e][1].row
          /\ sent_events[e][i].col = sent_events[e][1].col

\* an event on the far corner has been retransmitted to the limit, and another
\* event has been retransmitted too
C19_Witness ==
    \E e, f \in ClientEventIds :
       /\ e # f
       /\ Len(sent_events[e]) = 1 + MAX_RETRIES
       /\ sent_events[e][1].row = GRID_SIZE - 1
       /\ Len(sent_events[f]) >= 2

\* C20: the counter of event ids starts at 1; every acquire command (client.py
\* send_acquire_request, game_ui.py send_acquire) takes the counter's value as
\* its event id and adds one to the counter, nothing else changes the counter,
\* and an id the counter has not reached yet has never been sent, queued,
\* entered in the pending table, acked or abandoned: so no two commands get
\* the same id.
C20_FreshEventIds ==
    /\ next_event_id = 1
    /\ [](/\ next_event_id >= 1
          /\ \A e \in ClientEventIds :
                e >= next_event_id =>
                   /\ sent_events[e] = <<>>
                   /\ e \notin DOMAIN pending_events
                   /\ e \notin acked \cup failed
                   /\ born[e] < 0
                   /\ m_ev[1] # e /\ n_ev[1] # e
                   /\ \A i \in 1..Len(send_queue) : send_queue[i][1] # e)
    /\ [][/\ next_event_id' # next_event_id =>
                /\ next_event_id' = next_event_id + 1
                /\ \/ impl = "cli" /\ m_pc = "idle" /\ m_pc' = "m239"
                   \/ impl = "ui" /\ m_pc = "u195" /\ m_pc' = "idle"
          /\ (impl = "cli" /\ m_pc = "idle" /\ m_pc' = "m239") =>
                /\ m_ev'[1] = next_event_id
                /\ next_event_id' = next_event_id + 1
          /\ (impl = "ui" /\ m_pc = "u195" /\ m_pc' = "idle") =>
                /\ Len(send_queue') = Len(send_queue) + 1
                /\ send_queue'[Len(send_queue')][1] = next_event_id
                /\ next_event_id' = next_event_id + 1]_vars

\* a second command has been given its id after the first event was abandoned,
\* while the retry sweep or the network thread was at work
C20_Witness ==
    /\ next_event_id = 3
    /\ 1 \in failed
    /\ 1 \notin DOMAIN pending_events
    /\ sent_events[2] # <<>>
    /\ sent_events[2][1].at >= MAX_RETRIES * RETRY_INTERVAL_MS
    /\ \/ impl = "cli" /\ t_pc # "sleep"
       \/ impl = "ui" /\ n_pc # "n289"

\* C21: when the handler has received a datagram whose header decodes (any
\* message type) from a live endpoint and is back at the end of the loop body
\* without having entered the JOIN or the EVENT branch, the endpoint's
\* last-seen timestamp is the time of that step.
C21_RefreshOnEveryMessage ==
    [][(/\ h_pc = "recv" /\ h_pc' = "done"
        /\ h_cur'.size >= HEADER_SIZE /\ h_cur'.proto_ok /\ h_cur'.version = VERSION
        /\ h_cur'.msg_type \in MSG_JOIN..MSG_ACK
        /\ h_cur'.addr \in clients) =>
          /\ h_cur'.addr \in DOMAIN client_last_seen'
          /\ client_last_seen'[h_cur'.addr] = now]_vars

\* C22: the first EVENT_ACK the receive path handles for an event id that has
\* been transmitted and not abandoned finds that id in the pending table.
C22_PendingFromFirstSend ==
    [][\A e \in ClientEventIds :
          (e \notin acked /\ e \in acked' /\ e \notin failed) =>
             /\ sent_events[e] # <<>>
             /\ e \in DOMAIN pending_events]_vars

\* C23: in every SNAPSHOT packet sent, the player count declared in the payload
\* is the number of roster entries packed after it, and the payload (two count
\* bytes, the roster entries, the cells) is 2 + 9*P + N*N bytes long.
C23_PayloadConsistent ==
    \A m \in b_sent :
       /\ m.packet.num_players = Cardinality(m.packet.roster)
       /\ 2 + player_struct_size * Cardinality(m.packet.roster)
              + Cardinality(DOMAIN m.packet.cells)
            = 2 + player_struct_size * m.packet.num_players + GRID_SIZE * GRID_SIZE

(* --------------------- recvfrom raises an exception -------------------- *)
\* The errors a recvfrom can end with: ConnectionResetError (an ICMP answer to
\* an earlier sendto, from an endpoint that is gone) and any other OSError
\* (the local socket is closed or broken).
SockErrors == {"reset", "fatal"}
server_rest == <<server_vars, now, s_vars, b_vars, ever_evicted, first_writer, evaluated>>

\* server.py lines 202-211: ConnectionResetError: continue; OSError: break
HRecvError ==
    /\ h_pc = "recv"
    /\ \E k \in SockErrors :
          /\ sock_errs' = sock_errs \cup {<<"server", k>>}
          /\ h_pc' = IF k = "reset" THEN "recv" ELSE "stopped"
    /\ HKeep
    /\ UNCHANGED <<server_rest, p_vars, x_vars, h_player_id, c_vars, p_vars, x_vars>>

\* client.py line 102: recvfrom is in no try block; any exception ends recv_loop
RecvError ==
    /\ impl = "cli"
    /\ r_pc = "recv"
    /\ \E k \in SockErrors : sock_errs' = sock_errs \cup {<<"cli", k>>}
    /\ r_pc' = "raised"
    /\ UNCHANGED <<server_rest, p_vars, x_vars, h_vars, impl, client_state, snap_state, c_now, m_vars,
                   r_ev, t_vars, n_vars, c_rx, k_vars, swept>>

\* game_ui.py lines 297-303: socket.timeout: continue; OSError, of which
\* ConnectionResetError is a subclass: break
NetRecvError ==
    /\ impl = "ui"
    /\ n_pc = "n299"
    /\ \E k \in SockErrors : sock_errs' = sock_errs \cup {<<"ui", k>>}
    /\ n_pc' = "stopped"
    /\ UNCHANGED <<server_rest, p_vars, x_vars, h_vars, impl, client_state, snap_state, c_now, m_vars,
                   r_vars, t_vars, n_ev, c_rx, k_vars, swept>>

\* the three receive loops with socket errors, each with its message
\* handling: JOINs at the server, acquire commands and their acks at the clients
NextSocket ==
    \/ HRecvJoin \/ HRecvError \/ HLoop
    \/ HJoinCheck \/ HJoinRegister \/ HJoinResetEvents \/ HJoinLookup \/ HJoinAck
    \/ SendAny \/ InsertPending \/ RecvAck \/ RecvAckDel \/ RecvError
    \/ UiClick \/ UiIsPending \/ UiSendAcquireLock \/ UiSendAcquire
    \/ NetQueueLock \/ NetQueuePop \/ NetAddPending \/ NetRetryCheck
    \/ NetRecvTimeout \/ NetRecvAck \/ NetRecvError

SpecSocket == InitClients /\ [][NextSocket]_vars

\* C24: a receive loop that has been given reset errors only, and no fatal
\* one, is still receiving, and a loop that was given a fatal error has ended.
C24_ResetIgnored ==
    /\ (<<"server", "reset">> \in sock_errs /\ <<"server", "fatal">> \notin sock_errs)
          => h_pc # "stopped"
    /\ <<"server", "fatal">> \in sock_errs => h_pc = "stopped"
    /\ (<<"cli", "reset">> \in sock_errs /\ <<"cli", "fatal">> \notin sock_errs)
          => r_pc # "raised"
    /\ <<"cli", "fatal">> \in sock_errs => r_pc = "raised"
    /\ (<<"ui", "reset">> \in sock_errs /\ <<"ui", "fatal">> \notin sock_errs)
          => n_pc # "stopped"
    /\ <<"ui", "fatal">> \in sock_errs => n_pc = "stopped"

(* ------------------------------ protocol.py ---------------------------- *)
\* Unsigned integers are held as their base-65536 digits, most significant
\* first (two digits for a 32-bit field, four for a 64-bit field), so that the
\* full range of every field is there: 2^32 - 1 is <<65535, 65535>>.
U16Values == {<<0>>, <<255>>, <<256>>, <<65535>>}
U32Values == {<<0, 0>>, <<0, 65535>>, <<1, 0>>, <<65535, 65535>>}
U64Values == {<<0, 0, 0, 0>>, <<0, 1, 0, 256>>, <<65535, 65535, 65535, 65535>>}

\* struct.pack of one unsigned field in network order: two bytes per digit
FieldBytes(digits) ==
    [i \in 1..(2 * Len(digits)) |->
        IF i % 2 = 1 THEN digits[(i + 1) \div 2] \div 256 ELSE digits[i \div 2] % 256]

\* a field packed least significant byte first
FieldValue_LittleEndian(bytes) ==
    [i \in 1..(Len(bytes) \div 2) |-> bytes[2 * i] * 256 + bytes[2 * i - 1]]

\* struct.unpack of one unsigned field in network order
FieldValue(bytes) ==
    [i \in 1..(Len(bytes) \div 2) |-> bytes[2 * i - 1] * 256 + bytes[2 * i]]

\* b'GCSP'
PROTOCOL_ID == <<71, 67, 83, 80>>

\* lines 75-99: "!4s B B I I Q H I"
pack_header(msg_type, sid, seq, payload_len, checksum, ts_ms) ==
    PROTOCOL_ID \o <<VERSION, msg_type>> \o FieldBytes(sid) \o FieldBytes(seq)
        \o FieldBytes(ts_ms) \o FieldBytes(payload_len) \o FieldBytes(checksum)

HeaderError == [ok |-> FALSE, msg_type |-> 0, snapshot_id |-> <<>>, seq_num |-> <<>>,
                server_timestamp |-> <<>>, payload_len |-> <<>>, checksum |-> <<>>]

\* lines 102-134: ValueError for a short header, a wrong tag, a wrong version
\* and, from MsgType(msg_type), a type that is none of the five
unpack_header(data) ==
    IF Len(data) < HEADER_SIZE THEN HeaderError
    ELSE IF SubSeq(data, 1, 4) # PROTOCOL_ID THEN HeaderError
    ELSE IF data[5] # VERSION THEN HeaderError
    ELSE IF data[6] \notin MSG_JOIN..MSG_ACK THEN HeaderError
    ELSE [ok |-> TRUE, msg_type |-> data[6],
          snapshot_id |-> FieldValue(SubSeq(data, 7, 10)),
          seq_num |-> FieldValue(SubSeq(data, 11, 14)),
          server_timestamp |-> FieldValue(SubSeq(data, 15, 22)),
          payload_len |-> FieldValue(SubSeq(data, 23, 24)),
          checksum |-> FieldValue(SubSeq(data, 25, 28))]

\* lines 138-158: "!B I B B Q"
pack_event(event_type, event_id, row, col, client_ts_ms) ==
    <<event_type>> \o FieldBytes(event_id) \o <<row, col>> \o FieldBytes(client_ts_ms)

EventError == [ok |-> FALSE, event_type |-> 0, event_id |-> <<>>, row |-> 0, col |-> 0,
               client_ts_ms |-> <<>>]

\* unpack_event with a length test of 10 bytes
unpack_event_Ten(data) ==
    IF Len(data) < 10 THEN EventError
    ELSE IF data[1] # ACQUIRE_REQUEST THEN EventError
    ELSE [ok |-> TRUE, event_type |-> data[1],
          event_id |-> FieldValue(SubSeq(data, 2, 5)),
          row |-> data[6], col |-> data[7], client_ts_ms |-> <<>>]

\* lines 161-179: ValueError for a short payload and, from
\* EventType(event_type), for a kind that is not ACQUIRE_REQUEST
unpack_event(data) ==
    IF Len(data) < EVENT_SIZE THEN EventError
    ELSE IF data[1] # ACQUIRE_REQUEST THEN EventError
    ELSE [ok |-> TRUE, event_type |-> data[1],
          event_id |-> FieldValue(SubSeq(data, 2, 5)),
          row |-> data[6], col |-> data[7],
          client_ts_ms |-> FieldValue(SubSeq(data, 8, 15))]

\* the arguments pack_header is called with
HeaderArgs ==
    [msg_type : MSG_JOIN..MSG_ACK, snapshot_id : U32Values, seq_num : U32Values,
     payload_len : U16Values, checksum : {<<0, 0>>, <<65535, 65535>>}, ts_ms : U64Values]

\* the arguments pack_event is called with
EventArgs ==
    [event_type : {ACQUIRE_REQUEST}, event_id : U32Values, row : {0, 255}, col : {0, 255},
     client_ts_ms : U64Values]

\* the payload lengths of the EVENT datagrams received: from nothing to one
\* byte more than an event
MaxPayload == 16
PayloadLengths == 0..MaxPayload

protocol_rest == <<server_vars, now, h_vars, s_vars, b_vars, g_vars, c_vars, x_vars>>

CallPackHeader ==
    /\ p_pc = "idle"
    /\ \E a \in HeaderArgs :
          /\ p_in' = a
          /\ p_data' = pack_header(a.msg_type, a.snapshot_id, a.seq_num, a.payload_len,
                                   a.checksum, a.ts_ms)
    /\ p_pc' = "pack_header"
    /\ UNCHANGED <<protocol_rest, p_out>>

CallUnpackHeader ==
    /\ p_pc = "pack_header"
    /\ p_out' = unpack_header(p_data)
    /\ p_pc' = "unpack_header"
    /\ UNCHANGED <<protocol_rest, p_in, p_data>>

\* an event is packed and its first n bytes arrive (followed by a zero byte
\* when n is more than the event's length), or a payload of an unknown kind
CallPackEvent ==
    /\ p_pc = "idle"
    /\ \E a \in EventArgs, n \in PayloadLengths, kind \in {ACQUIRE_REQUEST, ACQUIRE_REQUEST + 1} :
          LET sent == pack_event(kind, a.event_id, a.row, a.col, a.client_ts_ms)
          IN  /\ p_in' = [a EXCEPT !.event_type = kind]
              /\ p_data' = IF n <= Len(sent) THEN SubSeq(sent, 1, n) ELSE sent \o <<0>>
    /\ p_pc' = "pack_event"
    /\ UNCHANGED <<protocol_rest, p_out>>

CallUnpackEvent ==
    /\ p_pc = "pack_event"
    /\ p_out' = unpack_event(p_data)
    /\ p_pc' = "unpack_event"
    /\ UNCHANGED <<protocol_rest, p_in, p_data>>

NextProtocol == CallPackHeader \/ CallUnpackHeader \/ CallPackEvent \/ CallUnpackEvent

SpecProtocol == Init /\ [][NextProtocol]_vars

\* C25: for every message type 0..4 and every value of the other fields in
\* its full range, the packed header is 28 bytes long and unpacking it gives
\* back the message type, snapshot id, sequence number, timestamp, payload
\* length and checksum it was packed from.
C25_HeaderRoundTrip ==
    /\ p_pc = "pack_header" => Len(p_data) = HEADER_SIZE
    /\ p_pc = "unpack_header" =>
          /\ p_out.ok
          /\ p_out.msg_type = p_in.msg_type
          /\ p_out.snapshot_id = p_in.snapshot_id
          /\ p_out.seq_num = p_in.seq_num
          /\ p_out.server_timestamp = p_in.ts_ms
          /\ p_out.payload_len = p_in.payload_len
          /\ p_out.checksum = p_in.checksum

\* a header with every field at the top of its range has gone round
C25_Witness ==
    /\ p_pc = "unpack_header"
    /\ p_in.msg_type = MSG_ACK
    /\ p_in.snapshot_id = <<65535, 65535>>
    /\ p_in.seq_num = <<0, 65535>>
    /\ p_in.ts_ms = <<65535, 65535, 65535, 65535>>
    /\ p_in.payload_len = <<65535>>
    /\ p_in.checksum = <<65535, 65535>>

C27_UnknownKindAcked ==
    (/\ h_pc = "done"
     /\ h_cur.size >= HEADER_SIZE + EVENT_SIZE /\ h_cur.proto_ok /\ h_cur.version = VERSION
     /\ h_cur.msg_type = MSG_EVENT /\ h_cur.payload_len >= EVENT_SIZE
     /\ h_cur.event_type # ACQUIRE_REQUEST) =>
        /\ h_sent = <<EventAck(h_cur.addr, h_cur.event_id)>>
        /\ grid = h_grid0
        /\ h_cur.addr \in DOMAIN processed_events =>
              h_cur.event_id \in processed_events[h_cur.addr]

\* C28: when the handler has sent the EVENT_ACK of an event whose id was not
\* in the sender's applied-event set at line 288, handle_acquire_request has
\* run the acquire rule for it: the claim was applied, or rejected as out of
\* range or as already owned; it did not return at line 169.
C28_AckedMeansEvaluated ==
    (/\ h_pc = "done"
     /\ IsEvent(h_cur)
     /\ h_sent = <<EventAck(h_cur.addr, h_cur.event_id)>>
     /\ ~h_dup) =>
        h_acq \in {"applied", "owned", "invalid"}

\* C29: no step of the JOIN branch ends the handler thread: the lookup of the
\* player id at line 246 finds the endpoint in the registry, and the handling
\* of a JOIN ends with the JOIN_ACK sent to its sender.
C29_JoinNeverFails ==
    [][(h_pc \in {"j229", "j232", "j235", "j242", "j246", "j247"} /\
        h_pc' \notin {h_pc, "killed"}) =>
          /\ h_pc = "j246" => h_cur.addr \in DOMAIN players
          /\ h_pc' # "crashed"
          /\ h_pc' = "done" =>
                \E pid \in 1..next_player_id : h_sent' = <<JoinAck(h_cur.addr, pid)>>]_vars

(* ------------------ many endpoints, one after the other ---------------- *)
\* the number of distinct endpoints that send a JOIN
MaxEndpoints == 256

\* an endpoint the server has not heard of: endpoints are numbered in the
\* order of their first JOIN
FreshEndpoint == Cardinality(DOMAIN player_id_history) + 1

HRecvFresh ==
    /\ FreshEndpoint <= MaxEndpoints
    /\ HRecvOf({JoinDgram(FreshEndpoint)})

NextEndpoints ==
    \/ HRecvFresh \/ HLoop
    \/ HJoinCheck \/ HJoinRegister \/ HJoinResetEvents \/ HJoinLookup \/ HJoinAck

SpecEndpoints == Init /\ [][NextEndpoints]_vars

\* C30: every player id in the history fits in one byte, and the handler never
\* ends on packing a player id into the JOIN_ACK.
C30_IdsFitByte ==
    /\ \A a \in DOMAIN player_id_history : player_id_history[a] <= 255
    /\ ~(h_pc = "crashed" /\ IsJoin(h_cur) /\ h_player_id > 255)

\* C32: the UI client never has two acquire requests of its own outstanding
\* for one cell.  Outstanding are the requests waiting in the send queue, the
\* one the network thread has popped and transmitted and is about to record,
\* and the entries of the pending table; no two of them name the same cell.
C32_OneAcquirePerCell ==
    impl = "ui" =>
       LET queued == {send_queue[i][1] : i \in DOMAIN send_queue}
           inhand == IF n_pc = "n211" THEN {n_ev[1]} ELSE {}
           cell(e) == IF e \in DOMAIN pending_events
                         THEN <<pending_events[e].row, pending_events[e].col>>
                         ELSE IF e \in inhand
                         THEN <<n_ev[2], n_ev[3]>>
                         ELSE LET i == CHOOSE j \in DOMAIN send_queue : send_queue[j][1] = e
                              IN  <<send_queue[i][2], send_queue[i][3]>>
           outstanding == queued \cup inhand \cup DOMAIN pending_events
       IN  \A e1, e2 \in outstanding : cell(e1) = cell(e2) => e1 = e2

(* ------------- snapshots from the server to the UI client ------------- *)
\* the endpoint the UI client's socket is bound to (game_ui.py line 171)
UiAddr == 1

\* the sequences that list the elements of S once each: the orders in which
\* players.values() can yield the ids packed
Orders(S) ==
    {q \in [1..Cardinality(S) -> S] : \A i, j \in 1..Cardinality(S) : q[i] = q[j] => i = j}

RECURSIVE RosterPayload(_)
RosterPayload(ids) ==
    IF ids = <<>> THEN <<>> ELSE RosterBytes(Head(ids)) \o RosterPayload(Tail(ids))

\* server.py lines 138-152, build_snapshot_payload: the bytes of a packet whose
\* roster entries were packed in the order ids
SnapshotPayload(packet, ids) ==
    <<GRID_SIZE, packet.num_players>> \o RosterPayload(ids)
        \o [i \in 1..(GRID_SIZE * GRID_SIZE) |-> packet.cells[i - 1]]

\* server.py line 377, game_ui.py line 299: the network takes a copy of a
\* SNAPSHOT datagram sent to the UI client's endpoint.  A datagram never taken
\* is lost; one taken is delivered any number of times, in any order.
Carry ==
    /\ \E m \in b_sent :
         /\ m.to = UiAddr
         /\ \E ids \in Orders(m.packet.roster) :
              wire' = wire \cup
                 {[snapshot_id |-> m.packet.snapshot_id, server_timestamp |-> now,
                   payload |-> SnapshotPayload(m.packet, ids)]}
    /\ UNCHANGED <<server_side, c_vars, p_vars, state_lock>>

\* game_ui.py lines 299-315, 325-328: a SNAPSHOT the network holds arrives
NetRecvSnapshotWire ==
    /\ impl = "ui"
    /\ n_pc = "n299"
    /\ \E d \in wire : c_rx' = d
    /\ n_pc' = "n325"
    /\ UNCHANGED <<server_side, p_vars, x_vars, impl, client_state, snap_state, c_now,
                   m_vars, r_vars, t_vars, n_ev, k_vars, swept>>

\* a server and a UI client
InitUi == InitServer /\ InitClient("ui")

\* Datagrams of the grid specification: the joins, and the UI client's
\* acquire request for one cell
GridDatagrams == JoinDatagrams \cup {EventDgram(UiAddr, 1, 0, 0)}

HRecvGrid == HRecvOf(GridDatagrams)

\* the steps of the handler for endpoints that were never evicted (no sweeper
\* runs here, so no id is restored)
GridSteps ==
    \/ HLoop
    \/ HJoinCheck \/ HJoinRegister \/ HJoinResetEvents \/ HJoinLookup \/ HJoinAck
    \/ HEventSeen \/ HEventCheck \/ HEventRegister \/ HEventResetEvents
    \/ HEventSetdefault \/ HEventDedup
    \/ HAcquireKnown \/ HAcquireLookup \/ HAcquireApply \/ HEventAck

\* the handler and the broadcaster of the server, the network, and the receive
\* loop of the UI client
NextGrid ==
    \/ HRecvGrid \/ GridSteps \/ Broadcaster \/ Carry
    \/ NetQueueLock \/ NetQueuePop \/ NetRetryCheck \/ NetRecvTimeout
    \/ NetRecvSnapshotWire \/ NetSnapshot

SpecGrid == InitUi /\ [][NextGrid]_vars

\* C31: the grid the UI client caches is monotonic.  In every step, a cell the
\* cache shows as owned by a player keeps exactly that owner: it is never shown
\* as unclaimed again, nor as owned by another player, whatever the order in
\* which the server's snapshots arrive.
C31_CachedGridMonotonic ==
    [][\A i \in Cells : c_grid[i] # 0 => c_grid'[i] = c_grid[i]]_vars

(* ------------------- game_ui.py: the two locks ------------------------ *)
(* The pygame loop (main) and NetworkThread.run with every "with" of       *)
(* GameState.lock and of send_lock taken and released in separate steps.   *)
(* A thread is inside a section of GameState.lock when it stands at one of *)
(* its sites and owns state_lock; it waits there when it does not.         *)
(* ---------------------------------------------------------------------- *)
\* what no step of the two threads changes
lock_rest == <<server_side, p_vars, wire, impl, last_retry_check, last_snapshot_id,
               last_snapshot_latency_ms, jitter_ms, samples, c_now, r_vars, t_vars,
               c_rx, k_vars, swept>>

LockOwner(l) == IF l = "send_lock" THEN send_lock ELSE state_lock
\* acquire (who is a thread) or release (who is "free") of lock l
SetLock(l, who) ==
    /\ send_lock' = IF l = "send_lock" THEN who ELSE send_lock
    /\ state_lock' = IF l = "state_lock" THEN who ELSE state_lock

\* (mutant) send_acquire takes GameState.lock first
send_acquire_locks_Reversed == <<"state_lock", "send_lock">>

\* lines 194-195: the locks send_acquire takes, the outer "with" first
send_acquire_locks == <<"send_lock", "state_lock">>

\* the calls of main that take GameState.lock alone: get_cell and is_pending
\* for a click (lines 497, 498) and for each cell drawn (lines 370, 371), and
\* draw_status (line 405)
MainSites == {"m497", "m498", "m370", "m371", "m405"}

\* the same of NetworkThread.run: add_pending_event (line 211),
\* _handle_retries (225), the JOIN_ACK branch (320), update_from_snapshot
\* (333) and ack_event (340)
RunSites == {"n211", "n225", "n320", "n333", "n340"}

\* lines 492-496: the event loop finds a left click on a cell
MainClick ==
    /\ m_pc = "idle"
    /\ next_event_id <= MaxClientEvents
    /\ \E rc \in ClientTargets : m_ev' = <<0, rc[1], rc[2]>>
    /\ m_pc' = "m497"
    /\ UNCHANGED <<lock_rest, pending_events, next_event_id, send_queue, send_lock,
                   state_lock, c_grid, n_vars>>

\* lines 487-509: no click; renderer.draw starts at the first cell
MainDraw ==
    /\ m_pc = "idle"
    /\ m_ev' = NoEvent
    /\ m_pc' = "m370"
    /\ UNCHANGED <<lock_rest, pending_events, next_event_id, send_queue, send_lock,
                   state_lock, c_grid, n_vars>>

\* "with self.lock" at a site of main
MainStateLock ==
    /\ m_pc \in MainSites
    /\ state_lock = "free"
    /\ state_lock' = "ui"
    /\ UNCHANGED <<lock_rest, pending_events, next_event_id, send_queue, send_lock,
                   c_grid, m_vars, n_vars>>

\* the section at a site of main, to the release of the lock: what get_cell or
\* is_pending returns decides where main goes (line 498), draw_grid goes on to
\* the next cell (lines 368-371), draw_status ends the frame (lines 405-411)
MainStateUnlock ==
    /\ m_pc \in MainSites
    /\ state_lock = "ui"
    /\ state_lock' = "free"
    /\ LET pending == \E e \in DOMAIN pending_events :
                         pending_events[e].row = m_ev[2] /\ pending_events[e].col = m_ev[3]
           last == m_ev[2] = GRID_SIZE - 1 /\ m_ev[3] = GRID_SIZE - 1
       IN  CASE m_pc = "m497" ->
                  IF c_grid[CellIndex(m_ev[2], m_ev[3])] = 0
                     THEN m_pc' = "m498" /\ UNCHANGED m_ev
                     ELSE m_pc' = "m370" /\ m_ev' = NoEvent
             [] m_pc = "m498" ->
                  IF pending
                     THEN m_pc' = "m370" /\ m_ev' = NoEvent
                     ELSE m_pc' = "m194" /\ UNCHANGED m_ev
             [] m_pc = "m370" -> m_pc' = "m371" /\ UNCHANGED m_ev
             [] m_pc = "m371" ->
                  IF last
                     THEN m_pc' = "m405" /\ m_ev' = NoEvent
                     ELSE /\ m_pc' = "m370"
                          /\ m_ev' = IF m_ev[3] = GRID_SIZE - 1
                                        THEN <<0, m_ev[2] + 1, 0>>
                                        ELSE <<0, m_ev[2], m_ev[3] + 1>>
             [] m_pc = "m405" -> m_pc' = "idle" /\ UNCHANGED m_ev
    /\ UNCHANGED <<lock_rest, pending_events, next_event_id, send_queue, send_lock,
                   c_grid, n_vars>>

\* line 194: the outer "with" of send_acquire
SendAcquireOuter ==
    /\ m_pc = "m194"
    /\ LockOwner(send_acquire_locks[1]) = "free"
    /\ SetLock(send_acquire_locks[1], "ui")
    /\ m_pc' = "m195"
    /\ UNCHANGED <<lock_rest, pending_events, next_event_id, send_queue, c_grid, m_ev,
                   n_vars>>

\* line 195: the inner "with"
SendAcquireInner ==
    /\ m_pc = "m195"
    /\ LockOwner(send_acquire_locks[2]) = "free"
    /\ SetLock(send_acquire_locks[2], "ui")
    /\ m_pc' = "m196"
    /\ UNCHANGED <<lock_rest, pending_events, next_event_id, send_queue, c_grid, m_ev,
                   n_vars>>

\* lines 196-197: the event id is allocated; the inner "with" ends
SendAcquireId ==
    /\ m_pc = "m196"
    /\ m_ev' = <<next_event_id, m_ev[2], m_ev[3]>>
    /\ next_event_id' = next_event_id + 1
    /\ SetLock(send_acquire_locks[2], "free")
    /\ m_pc' = "m199"
    /\ UNCHANGED <<lock_rest, pending_events, send_queue, c_grid, n_vars>>

\* line 199: the request is queued; the outer "with" ends and main goes on to
\* draw the frame
SendAcquireAppend ==
    /\ m_pc = "m199"
    /\ send_queue' = Append(send_queue, m_ev)
    /\ SetLock(send_acquire_locks[1], "free")
    /\ m_pc' = "m370"
    /\ m_ev' = NoEvent
    /\ UNCHANGED <<lock_rest, pending_events, next_event_id, c_grid, n_vars>>

\* lines 289, 216: _process_send_queue takes send_lock
RunSendLock ==
    /\ n_pc = "n289"
    /\ send_lock = "free"
    /\ send_lock' = "net"
    /\ n_pc' = "n217"
    /\ UNCHANGED <<lock_rest, pending_events, next_event_id, send_queue, state_lock,
                   c_grid, m_vars, n_ev>>

\* lines 217-219, 203-210: the queue is empty and send_lock released, or its
\* head is popped and sent, send_lock still held
RunDrain ==
    /\ n_pc = "n217"
    /\ IF send_queue = <<>>
          THEN /\ send_lock' = "free"
               /\ n_pc' = "n292"
               /\ UNCHANGED <<send_queue, n_ev>>
          ELSE /\ send_queue' = Tail(send_queue)
               /\ n_ev' = Head(send_queue)
               /\ n_pc' = "n211"
               /\ UNCHANGED send_lock
    /\ UNCHANGED <<lock_rest, pending_events, next_event_id, state_lock, c_grid, m_vars>>

\* lines 292-295: the retry sweep is due, or it is not
RunRetryDue ==
    /\ n_pc = "n292"
    /\ \E due \in BOOLEAN : n_pc' = IF due THEN "n225" ELSE "n299"
    /\ UNCHANGED <<lock_rest, pending_events, next_event_id, send_queue, send_lock,
                   state_lock, c_grid, m_vars, n_ev>>

\* lines 298-343: recvfrom times out, or returns a JOIN_ACK, a SNAPSHOT or an
\* EVENT_ACK
RunRecv ==
    /\ n_pc = "n299"
    /\ n_pc' \in {"n289", "n320", "n333", "n340"}
    /\ UNCHANGED <<lock_rest, pending_events, next_event_id, send_queue, send_lock,
                   state_lock, c_grid, m_vars, n_ev>>

\* "with self.lock" at a site of NetworkThread.run
RunStateLock ==
    /\ n_pc \in RunSites
    /\ state_lock = "free"
    /\ state_lock' = "net"
    /\ UNCHANGED <<lock_rest, pending_events, next_event_id, send_queue, send_lock,
                   c_grid, m_vars, n_vars>>

\* the section at a site of NetworkThread.run, to the release of the lock:
\* the pending entry is added (lines 143-148), the table swept (226-255), a
\* snapshot discarded or its grid cached (121-138), an entry acknowledged
\* (153-156)
RunStateUnlock ==
    /\ n_pc \in RunSites
    /\ state_lock = "net"
    /\ state_lock' = "free"
    /\ CASE n_pc = "n211" ->
              /\ pending_events' =
                    Put(pending_events, n_ev[1], PendingEntry(n_ev[2], n_ev[3], c_now))
              /\ n_ev' = NoEvent
              /\ n_pc' = "n217"
              /\ UNCHANGED c_grid
         [] n_pc = "n225" ->
              /\ pending_events' = HandleRetries(pending_events, c_now)
              /\ n_pc' = "n299"
              /\ UNCHANGED <<c_grid, n_ev>>
         [] n_pc = "n320" ->
              /\ n_pc' = "n289"
              /\ UNCHANGED <<pending_events, c_grid, n_ev>>
         [] n_pc = "n333" ->
              /\ \E p \in Payloads, stale \in BOOLEAN :
                    /\ DecodeSnapshot(p) # <<>>
                    /\ c_grid' = IF stale THEN c_grid
                                          ELSE UpdateGrid(c_grid, DecodeSnapshot(p))
              /\ n_pc' = "n289"
              /\ UNCHANGED <<pending_events, n_ev>>
         [] n_pc = "n340" ->
              /\ \E e \in ClientEventIds :
                    pending_events' = IF e \in DOMAIN pending_events
                                         THEN Pop(pending_events, e)
                                         ELSE pending_events
              /\ n_pc' = "n289"
              /\ UNCHANGED <<c_grid, n_ev>>
    /\ UNCHANGED <<lock_rest, next_event_id, send_queue, send_lock, m_vars>>

\* An exception ends NetworkThread.run: sendto raises OSError in _send_event
\* (line 210, the event popped) or in _handle_retries (line 249, while an entry
\* is resent), and the "with" that is left releases its lock; or recvfrom
\* raises OSError and the loop is left (lines 302-303), as after stop().
RunRaise ==
    /\ \/ /\ n_pc = "n217"
          /\ send_queue # <<>>
          /\ send_queue' = Tail(send_queue)
          /\ send_lock' = "free"
          /\ UNCHANGED state_lock
       \/ /\ n_pc = "n225"
          /\ state_lock = "net"
          /\ pending_events # EmptyDict
          /\ state_lock' = "free"
          /\ UNCHANGED <<send_queue, send_lock>>
       \/ /\ n_pc = "n299"
          /\ UNCHANGED <<send_queue, send_lock, state_lock>>
    /\ n_pc' = "stopped"
    /\ UNCHANGED <<lock_rest, pending_events, next_event_id, c_grid, m_vars, n_ev>>

NextLocks ==
    \/ RunRaise
    \/ MainClick \/ MainDraw \/ MainStateLock \/ MainStateUnlock
    \/ SendAcquireOuter \/ SendAcquireInner \/ SendAcquireId \/ SendAcquireAppend
    \/ RunSendLock \/ RunDrain \/ RunRetryDue \/ RunRecv
    \/ RunStateLock \/ RunStateUnlock

\* Both threads keep running: main draws a frame every 1/FPS s (line 511) and
\* NetworkThread.run leaves recvfrom after 0.1 s at most (line 173), so every
\* step that needs no lock is taken.  A thread blocked in Lock.acquire is
\* woken when the lock is released, and the other thread sleeps in clock.tick
\* or recvfrom, holding no lock, in every turn of its loop: a lock that is
\* free again and again is obtained.
FairLocks ==
    /\ WF_vars(MainDraw) /\ WF_vars(MainStateUnlock)
    /\ WF_vars(SendAcquireId) /\ WF_vars(SendAcquireAppend)
    /\ WF_vars(RunDrain) /\ WF_vars(RunRetryDue) /\ WF_vars(RunRecv)
    /\ WF_vars(RunStateUnlock)
    /\ SF_vars(MainStateLock) /\ SF_vars(SendAcquireOuter) /\ SF_vars(SendAcquireInner)
    /\ SF_vars(RunSendLock) /\ SF_vars(RunStateLock)

SpecLocks == InitUi /\ [][NextLocks]_vars /\ FairLocks

\* C33: the UI client cannot deadlock.  Neither main nor NetworkThread.run ever
\* requests send_lock while it holds GameState.lock, so the two locks are taken
\* in the order send_lock, GameState.lock only; and whenever one of the two
\* threads requests a lock it does not hold, it later holds it.
C33_NoDeadlock ==
    LET MainWants(l) ==
           \/ m_pc = "m194" /\ send_acquire_locks[1] = l
           \/ m_pc = "m195" /\ send_acquire_locks[2] = l
           \/ l = "state_lock" /\ m_pc \in MainSites /\ state_lock # "ui"
        RunWants(l) ==
           \/ l = "send_lock" /\ n_pc = "n289"
           \/ l = "state_lock" /\ n_pc \in RunSites /\ state_lock # "net"
    IN  /\ [](/\ MainWants("send_lock") => state_lock # "ui"
              /\ RunWants("send_lock") => state_lock # "net")
        /\ MainWants("send_lock") ~> (send_lock = "ui")
        /\ MainWants("state_lock") ~> (state_lock = "ui")
        /\ RunWants("send_lock") ~> (send_lock = "net")
        /\ RunWants("state_lock") ~> (state_lock = "net")

\* main holds send_lock inside send_acquire and waits for GameState.lock, which
\* NetworkThread.run holds in one of its sections
C33_Witness ==
    /\ m_pc = "m195"
    /\ send_lock = "ui"
    /\ state_lock = "net"
    /\ n_pc \in RunSites
====
